---- MODULE Spec2Model ----
(***************************************************************************)
(* Model of the playbook engine of src/src/hooks/common.py and of the two  *)
(* lifecycle hooks that drive it (session_end.py, precompact.py).          *)
(*                                                                         *)
(* Python dicts are modelled as TLA+ records whose DOMAIN is the set of    *)
(* keys present, lists as sequences.  A bare JSON string inside a list of  *)
(* dicts is wrapped as [str |-> s] so that isinstance(item, str) becomes   *)
(* "str" \in DOMAIN item.  An entry name is the pair of its non-digit      *)
(* prefix and its trailing decimal digits ("pat-001" is                    *)
(* [pre |-> "pat-", digits |-> <<0,0,1>>]), so that formatting and parsing *)
(* of the numeric suffix are computed, not assumed.                        *)
(* Dict iteration order over playbook["sections"] is taken to be the       *)
(* canonical section order followed by any non-canonical keys.             *)
(***************************************************************************)
EXTENDS Integers, Sequences, FiniteSets, TLC

(***************************************************************************)
(* Generic dict / list helpers                                             *)
(***************************************************************************)
Has(d, k) == k \in DOMAIN d

Pop(d, k) == [j \in (DOMAIN d) \ {k} |-> d[j]]

Put(d, k, v) == [j \in (DOMAIN d) \cup {k} |-> IF j = k THEN v ELSE d[j]]

Range(s) == {s[i] : i \in DOMAIN s}

RECURSIVE SelectSeqBy(_, _)
\* [x for x in s if x.name # n]
SelectSeqBy(s, n) ==
    IF s = <<>> THEN <<>>
    ELSE IF Head(s).name # n THEN <<Head(s)>> \o SelectSeqBy(Tail(s), n)
    ELSE SelectSeqBy(Tail(s), n)

RECURSIVE SumSeq(_)
SumSeq(s) == IF s = <<>> THEN 0 ELSE Head(s) + SumSeq(Tail(s))

Max(a, b) == IF a >= b THEN a ELSE b

(***************************************************************************)
(* Section registry                                                        *)
(***************************************************************************)
PAT == "PATTERNS & APPROACHES"
MIS == "MISTAKES TO AVOID"
PREF == "USER PREFERENCES"
CTX == "PROJECT CONTEXT"
OTH == "OTHERS"

\* canonical order = insertion order of the SECTION_SLUGS dict
SectionOrder == <<PAT, MIS, PREF, CTX, OTH>>

SECTION_SLUGS == [s \in Range(SectionOrder) |->
                    CASE s = PAT -> "pat"
                      [] s = MIS -> "mis"
                      [] s = PREF -> "pref"
                      [] s = CTX -> "ctx"
                      [] OTHER -> "oth"]

Canonical == DOMAIN SECTION_SLUGS

\* str.strip() on the raw strings the model uses: a string made of blanks
\* only strips to the empty string, padded strings lose their padding.
Strip(t) ==
    CASE t = " " -> ""
      [] t = "  " -> ""
      [] t = " others " -> "others"
      [] OTHER -> t

\* str.upper() on the section spellings the model uses
Upper(t) ==
    CASE t = "patterns & approaches" -> PAT
      [] t = "Mistakes To Avoid" -> MIS
      [] t = "others" -> OTH
      [] OTHER -> t

NoMatch == "<none>"

RECURSIVE FirstCanonicalMatch(_, _)
FirstCanonicalMatch(order, stripped) ==
    IF order = <<>> THEN NoMatch
    ELSE IF Upper(Head(order)) = Upper(stripped) THEN Head(order)
    ELSE FirstCanonicalMatch(Tail(order), stripped)

_resolve_section(section_name) ==
    IF section_name = "" \/ Strip(section_name) = "" THEN OTH
    ELSE LET m == FirstCanonicalMatch(SectionOrder, Strip(section_name))
         IN IF m # NoMatch THEN m ELSE OTH

(***************************************************************************)
(* Entry names and the two id generators                                   *)
(***************************************************************************)
Nm(pre, digits) == [pre |-> pre, digits |-> digits]

RECURSIVE ParseInt(_)
\* int("007") = 7
ParseInt(ds) ==
    IF ds = <<>> THEN 0
    ELSE 10 * ParseInt(SubSeq(ds, 1, Len(ds) - 1)) + ds[Len(ds)]

RECURSIVE Digits(_)
\* decimal digits of n without padding
Digits(n) == IF n < 10 THEN <<n>> ELSE Append(Digits(n \div 10), n % 10)

RECURSIVE PadTo(_, _)
PadTo(ds, w) == IF Len(ds) >= w THEN ds ELSE PadTo(<<0>> \o ds, w)

\* f"{n:03d}"
Format03d(n) == PadTo(Digits(n), 3)

SlugDash(slug) ==
    CASE slug = "pat" -> "pat-"
      [] slug = "mis" -> "mis-"
      [] slug = "pref" -> "pref-"
      [] slug = "ctx" -> "ctx-"
      [] OTHER -> "oth-"

\* re.compile(rf"^{slug}-(\d+)$").match(entry.get("name", ""))
MatchesSlug(e, slug) ==
    /\ Has(e, "name")
    /\ e.name.pre = SlugDash(slug)
    /\ Len(e.name.digits) >= 1

RECURSIVE MaxSlugNum(_, _)
MaxSlugNum(section_entries, slug) ==
    IF section_entries = <<>> THEN 0
    ELSE LET e == Head(section_entries)
             rest == MaxSlugNum(Tail(section_entries), slug)
         IN IF MatchesSlug(e, slug)
            THEN Max(ParseInt(e.name.digits), rest)
            ELSE rest

generate_keypoint_name(section_entries, slug) ==
    Nm(SlugDash(slug), Format03d(MaxSlugNum(section_entries, slug) + 1))

\* max over the names seen so far that start with "kpt_" and parse
MaxLegacyNum(existing_names) ==
    LET nums == {ParseInt(n.digits) : n \in {m \in existing_names :
                                               m.pre = "kpt_" /\ Len(m.digits) >= 1}}
    IN IF nums = {} THEN 0 ELSE CHOOSE x \in nums : \A y \in nums : y <= x

_generate_legacy_keypoint_name(existing_names) ==
    Nm("kpt_", Format03d(MaxLegacyNum(existing_names) + 1))

(***************************************************************************)
(* Playbook store: default, load                                           *)
(***************************************************************************)
NoTime == <<>>

_default_playbook ==
    [version |-> "1.0", last_updated |-> NoTime,
     sections |-> [s \in Canonical |-> <<>>]]

\* MigrateItem with the score split without clamping at 0
MigrateItem_Unclamped(item, existing_names) ==
    IF Has(item, "str")
    THEN [name |-> _generate_legacy_keypoint_name(existing_names),
          text |-> item.str, helpful |-> 0, harmful |-> 0]
    ELSE LET named == IF Has(item, "name") THEN item
                      ELSE Put(item, "name", _generate_legacy_keypoint_name(existing_names))
         IN IF Has(item, "helpful") /\ Has(item, "harmful")
            THEN Pop(named, "score")
            ELSE IF Has(item, "score")
            THEN Put(Put(Pop(named, "score"),
                         "helpful", item.score),
                         "harmful", 0 - item.score)
            ELSE Put(Put(named, "helpful", 0), "harmful", 0)

\* one element of the legacy key_points list -> migrated entry
\* (item, names seen so far) -> entry
MigrateItem(item, existing_names) ==
    IF Has(item, "str")
    THEN [name |-> _generate_legacy_keypoint_name(existing_names),
          text |-> item.str, helpful |-> 0, harmful |-> 0]
    ELSE LET named == IF Has(item, "name") THEN item
                      ELSE Put(item, "name", _generate_legacy_keypoint_name(existing_names))
         IN IF Has(item, "helpful") /\ Has(item, "harmful")
            THEN Pop(named, "score")
            ELSE IF Has(item, "score")
            THEN Put(Put(Pop(named, "score"),
                         "helpful", Max(item.score, 0)),
                         "harmful", Max(0 - item.score, 0))
            ELSE Put(Put(named, "helpful", 0), "harmful", 0)

RECURSIVE MigrateKeyPoints(_, _, _)
\* MigrateKeyPoints putting each migrated entry at the front
MigrateKeyPoints_Prepend(items, keypoints, existing_names) ==
    IF items = <<>> THEN keypoints
    ELSE MigrateKeyPoints(Tail(items),
                          <<MigrateItem(Head(items), existing_names)>> \o keypoints,
                          existing_names \cup {MigrateItem(Head(items), existing_names).name})

\* the for-loop of load_playbook over data["key_points"]
MigrateKeyPoints(items, keypoints, existing_names) ==
    IF items = <<>> THEN keypoints
    ELSE LET e == MigrateItem(Head(items), existing_names)
         IN MigrateKeyPoints(Tail(items), Append(keypoints, e),
                             existing_names \cup {e.name})

\* the try block of load_playbook on a parsed record
LoadParsed(data0) ==
    LET data == IF Has(data0, "sections") /\ Has(data0, "key_points")
                THEN Pop(data0, "key_points") ELSE data0
    IN IF Has(data, "sections")
       THEN Put(data, "sections",
                [s \in (DOMAIN data.sections) \cup Canonical |->
                   IF s \in DOMAIN data.sections THEN data.sections[s] ELSE <<>>])
       ELSE IF ~Has(data, "key_points") THEN _default_playbook
       ELSE LET keypoints == MigrateKeyPoints(data.key_points, <<>>, {})
            IN Pop(Put(data, "sections",
                       [s \in Canonical |-> IF s = OTH THEN keypoints ELSE <<>>]),
                   "key_points")

\* what makes the try block raise: json.load on a file that is not JSON, or
\* item assignment on a "sections" value that is a list ([list |-> l])
LoadRaises(d) ==
    \/ d.state = "unparseable"
    \/ d.state = "json" /\ Has(d.data, "sections") /\ Has(d.data.sections, "list")

\* LoadOutcome without the except clause
LoadOutcome_Uncaught(d) ==
    IF d.state = "missing" THEN [pb |-> _default_playbook, raised |-> FALSE]
    ELSE IF LoadRaises(d) THEN [pb |-> _default_playbook, raised |-> TRUE]
    ELSE [pb |-> LoadParsed(d.data), raised |-> FALSE]

\* the playbook returned and whether an exception leaves load_playbook
LoadOutcome(d) ==
    IF d.state = "missing" THEN [pb |-> _default_playbook, raised |-> FALSE]
    ELSE IF LoadRaises(d) THEN [pb |-> _default_playbook, raised |-> FALSE]
    ELSE [pb |-> LoadParsed(d.data), raised |-> FALSE]

load_playbook(d) == LoadOutcome(d).pb

(***************************************************************************)
(* Curator operations engine                                               *)
(***************************************************************************)
\* dict.get(k, default)
Get(d, k, default) == IF Has(d, k) THEN d[k] ELSE default

RECURSIVE SetToSeq(_)
SetToSeq(S) == IF S = {} THEN <<>>
               ELSE LET x == CHOOSE y \in S : TRUE IN <<x>> \o SetToSeq(S \ {x})

\* iteration order of playbook["sections"]
KeyOrder(sections) ==
    SelectSeq(SectionOrder, LAMBDA s : s \in DOMAIN sections)
       \o SetToSeq((DOMAIN sections) \ Canonical)

RECURSIVE FlatFrom(_, _)
\* [(sec_name, kp) for sec_name, entries in sections.items() for kp in entries]
FlatFrom(sections, order) ==
    IF order = <<>> THEN <<>>
    ELSE [i \in 1..Len(sections[Head(order)]) |->
             [sec |-> Head(order), kp |-> sections[Head(order)][i]]]
         \o FlatFrom(sections, Tail(order))

FlatItems(pb) == FlatFrom(pb.sections, KeyOrder(pb.sections))

AllEntries(pb) == {it.kp : it \in Range(FlatItems(pb))}

AllNames(pb) == {it.kp.name : it \in Range(FlatItems(pb))}

\* ExistingTexts collecting the texts of one section only
ExistingTexts_OthersOnly(pb) == {it.kp.text : it \in {x \in Range(FlatItems(pb)) : x.sec = OTH}}

\* existing_texts built by the ADD branch
ExistingTexts(pb) == {it.kp.text : it \in Range(FlatItems(pb))}

\* id_to_entry / id_to_section: a later item overwrites an earlier one
LastItemNamed(pb, sid) ==
    LET flat == FlatItems(pb)
        i == CHOOSE j \in DOMAIN flat :
                /\ flat[j].kp.name = sid
                /\ \A k \in DOMAIN flat : flat[k].kp.name = sid => k <= j
    IN flat[i]

\* the nested for-loops with break of UPDATE and DELETE: first match
FirstItemNamed(pb, target_id) ==
    LET flat == FlatItems(pb)
        i == CHOOSE j \in DOMAIN flat :
                /\ flat[j].kp.name = target_id
                /\ \A k \in DOMAIN flat : flat[k].kp.name = target_id => j <= k
    IN flat[i]

FirstIndexNamed(entries, target_id) ==
    CHOOSE j \in DOMAIN entries :
        /\ entries[j].name = target_id
        /\ \A k \in DOMAIN entries : entries[k].name = target_id => j <= k

SetSection(pb, sec, entries) ==
    [pb EXCEPT !.sections = [@ EXCEPT ![sec] = entries]]

\* "not x or not x.strip()" on a name or a text
BlankText(t) == t = "" \/ Strip(t) = ""

NoName == Nm("", <<>>)

BlankName(n) == n = NoName

Skip(pb) == [pb |-> pb, raised |-> FALSE, applied |-> FALSE]

Done(pb) == [pb |-> pb, raised |-> FALSE, applied |-> TRUE]

Raise(pb) == [pb |-> pb, raised |-> TRUE, applied |-> FALSE]

\* ApplyADD without the check against the existing texts
ApplyADD_NoDuplicateCheck(pb, op) ==
    IF BlankText(Get(op, "text", "")) THEN Skip(pb)
    ELSE Done(SetSection(pb, _resolve_section(Get(op, "section", "")),
                Append(pb.sections[_resolve_section(Get(op, "section", ""))],
                       [name |-> generate_keypoint_name(
                                    pb.sections[_resolve_section(Get(op, "section", ""))],
                                    SECTION_SLUGS[_resolve_section(Get(op, "section", ""))]),
                        text |-> op.text, helpful |-> 0, harmful |-> 0])))

ApplyADD(pb, op) ==
    LET text == Get(op, "text", "")
        section_name == _resolve_section(Get(op, "section", ""))
        target_entries == pb.sections[section_name]
        name == generate_keypoint_name(target_entries, SECTION_SLUGS[section_name])
    IN IF BlankText(text) THEN Skip(pb)
       ELSE IF text \in ExistingTexts(pb) THEN Skip(pb)
       ELSE Done(SetSection(pb, section_name,
                   Append(target_entries,
                          [name |-> name, text |-> text, helpful |-> 0, harmful |-> 0])))

RECURSIVE RemoveSources(_, _, _)
\* for sid in valid_ids: sections[id_to_section[sid]] = [kp ... if kp.name != sid]
RemoveSources(pb, valid_ids, id_to_section) ==
    IF valid_ids = <<>> THEN pb
    ELSE LET sid == Head(valid_ids)
             sec == id_to_section[sid]
         IN RemoveSources(SetSection(pb, sec, SelectSeqBy(pb.sections[sec], sid)),
                          Tail(valid_ids), id_to_section)

ValidIds(pb, source_ids) == SelectSeq(source_ids, LAMBDA sid : sid \in AllNames(pb))

\* id_to_section[sid]
IdToSection(pb, sid) == LastItemNamed(pb, sid).sec

\* id_to_entry[sid]
IdToEntry(pb, sid) == LastItemNamed(pb, sid).kp

\* TargetSection inheriting the section of the last valid source
TargetSection_LastSource(pb, op, valid_ids) ==
    IF Get(op, "section", "") # "" /\ Strip(Get(op, "section", "")) # ""
    THEN _resolve_section(Get(op, "section", ""))
    ELSE IdToSection(pb, valid_ids[Len(valid_ids)])

\* "Resolve target section"
TargetSection(pb, op, valid_ids) ==
    IF Get(op, "section", "") # "" /\ Strip(Get(op, "section", "")) # ""
    THEN _resolve_section(Get(op, "section", ""))
    ELSE IdToSection(pb, valid_ids[1])

\* sum(id_to_entry[sid][field] for sid in valid_ids)
TotalOf(pb, valid_ids, field) ==
    SumSeq([i \in DOMAIN valid_ids |-> IdToEntry(pb, valid_ids[i])[field]])

\* create the merged entry in target_section, then remove the valid sources
\* MergeInto putting the merged entry at the head of the target section
MergeInto_Prepend(pb, op, valid_ids, target_section) ==
    IF target_section \notin Canonical THEN Raise(pb)
    ELSE Done(RemoveSources(
            SetSection(pb, target_section,
               <<[name |-> generate_keypoint_name(pb.sections[target_section],
                                                  SECTION_SLUGS[target_section]),
                  text |-> Get(op, "merged_text", ""),
                  helpful |-> TotalOf(pb, valid_ids, "helpful"),
                  harmful |-> TotalOf(pb, valid_ids, "harmful")]>>
               \o pb.sections[target_section]),
            valid_ids,
            [sid \in Range(valid_ids) |-> IdToSection(pb, sid)]))

MergeInto(pb, op, valid_ids, target_section) ==
    IF target_section \notin Canonical THEN Raise(pb)   \* SECTION_SLUGS[...] KeyError
    ELSE Done(RemoveSources(
            SetSection(pb, target_section,
               Append(pb.sections[target_section],
                      [name |-> generate_keypoint_name(pb.sections[target_section],
                                                       SECTION_SLUGS[target_section]),
                       text |-> Get(op, "merged_text", ""),
                       helpful |-> TotalOf(pb, valid_ids, "helpful"),
                       harmful |-> TotalOf(pb, valid_ids, "harmful")])),
            valid_ids,
            [sid \in Range(valid_ids) |-> IdToSection(pb, sid)]))

\* MergeValid without the count check after filtering
MergeValid_NoRecheck(pb, op, valid_ids) ==
    IF Len(valid_ids) < 1 THEN Skip(pb)
    ELSE MergeInto(pb, op, valid_ids, TargetSection(pb, op, valid_ids))

\* the MERGE branch once valid_ids is known
MergeValid(pb, op, valid_ids) ==
    IF Len(valid_ids) < 2 THEN Skip(pb)
    ELSE MergeInto(pb, op, valid_ids, TargetSection(pb, op, valid_ids))

ApplyMERGE(pb, op) ==
    IF Len(Get(op, "source_ids", <<>>)) < 2 THEN Skip(pb)
    ELSE IF BlankText(Get(op, "merged_text", "")) THEN Skip(pb)
    ELSE MergeValid(pb, op, ValidIds(pb, Get(op, "source_ids", <<>>)))

\* ApplyUPDATE writing a fresh entry in place of the target
ApplyUPDATE_ResetsCounters(pb, op) ==
    IF BlankName(Get(op, "target_id", NoName)) THEN Skip(pb)
    ELSE IF BlankText(Get(op, "text", "")) THEN Skip(pb)
    ELSE IF op.target_id \notin AllNames(pb) THEN Skip(pb)
    ELSE Done(SetSection(pb, FirstItemNamed(pb, op.target_id).sec,
                [k \in DOMAIN pb.sections[FirstItemNamed(pb, op.target_id).sec] |->
                    IF pb.sections[FirstItemNamed(pb, op.target_id).sec][k].name = op.target_id
                    THEN [name |-> op.target_id, text |-> op.text, helpful |-> 0, harmful |-> 0]
                    ELSE pb.sections[FirstItemNamed(pb, op.target_id).sec][k]]))

ApplyUPDATE(pb, op) ==
    LET target_id == Get(op, "target_id", NoName)
        text == Get(op, "text", "")
    IN IF BlankName(target_id) THEN Skip(pb)
       ELSE IF BlankText(text) THEN Skip(pb)
       ELSE IF target_id \notin AllNames(pb) THEN Skip(pb)
       ELSE LET sec == FirstItemNamed(pb, target_id).sec
                i == FirstIndexNamed(pb.sections[sec], target_id)
            IN Done(SetSection(pb, sec,
                      [pb.sections[sec] EXCEPT ![i] = Put(@, "text", text)]))

ApplyDELETE(pb, op) ==
    LET target_id == Get(op, "target_id", NoName)
    IN IF BlankName(target_id) THEN Skip(pb)
       ELSE IF target_id \notin AllNames(pb) THEN Skip(pb)
       ELSE LET found_section == FirstItemNamed(pb, target_id).sec
            IN Done(SetSection(pb, found_section,
                      SelectSeqBy(pb.sections[found_section], target_id)))

\* one iteration of the "for op in operations" loop
\* ApplyOp skipping an element that is not a dict
ApplyOp_SkipsNonDict(pb, op) ==
    IF Has(op, "str") THEN Skip(pb)
    ELSE LET op_type == Get(op, "type", "")
         IN CASE op_type = "ADD" -> ApplyADD(pb, op)
              [] op_type = "MERGE" -> ApplyMERGE(pb, op)
              [] op_type = "UPDATE" -> ApplyUPDATE(pb, op)
              [] op_type = "DELETE" -> ApplyDELETE(pb, op)
              [] OTHER -> Skip(pb)

ApplyOp(pb, op) ==
    IF Has(op, "str") THEN Raise(pb)          \* op.get on a non-dict: AttributeError
    ELSE LET op_type == Get(op, "type", "")
         IN CASE op_type = "ADD" -> ApplyADD(pb, op)
              [] op_type = "MERGE" -> ApplyMERGE(pb, op)
              [] op_type = "UPDATE" -> ApplyUPDATE(pb, op)
              [] op_type = "DELETE" -> ApplyDELETE(pb, op)
              [] OTHER -> Skip(pb)

MAX_OPS == 10

RECURSIVE RunOps(_, _, _)

LogEntry(pb, op, r) ==
    [op |-> op, before |-> pb, after |-> r.pb, applied |-> r.applied, raised |-> r.raised]

\* Continue passing on the playbook as it was before the operation
Continue_Stale(pb, operations, log, r) ==
    IF r.raised THEN [pb |-> r.pb, raised |-> TRUE, log |-> log]
    ELSE IF Tail(operations) = <<>> THEN [pb |-> r.pb, raised |-> FALSE, log |-> log]
    ELSE RunOps(pb, Tail(operations), log)

\* after one operation with outcome r: an exception leaves the loop, otherwise
\* the next operation runs on the playbook this one left
Continue(pb, operations, log, r) ==
    IF r.raised THEN [pb |-> r.pb, raised |-> TRUE, log |-> log]
    ELSE RunOps(r.pb, Tail(operations), log)

\* r: the outcome of the first of the operations on pb
Step(pb, operations, log, r) ==
    Continue(pb, operations, Append(log, LogEntry(pb, Head(operations), r)), r)

\* the loop; log records, per processed operation, the working playbook
\* before and after it
RunOps(pb, operations, log) ==
    IF operations = <<>> THEN [pb |-> pb, raised |-> FALSE, log |-> log]
    ELSE Step(pb, operations, log, ApplyOp(pb, Head(operations)))

\* _apply_curator_operations without the cut to MAX_OPS
_apply_curator_operations_NoTruncation(playbook, operations) ==
    RunOps(playbook, operations, <<>>)

_apply_curator_operations(playbook, operations) ==
    RunOps(playbook,
           IF Len(operations) > MAX_OPS THEN SubSeq(operations, 1, MAX_OPS) ELSE operations,
           <<>>)

(***************************************************************************)
(* Object identity: heap is the sequence of playbook objects, a reference  *)
(* is an index into it.                                                    *)
(***************************************************************************)
\* a copy that is the same object
deepcopy_Alias(heap, ref) == [heap |-> heap, ref |-> ref]

\* copy.deepcopy(playbook): a fresh object with equal contents
deepcopy(heap, ref) == [heap |-> Append(heap, heap[ref]), ref |-> Len(heap) + 1]

\* the heap once the batch has run on the object c.ref
AfterBatch(c, r) == [c.heap EXCEPT ![c.ref] = r.pb]

\* Outcome returning the working copy from the except branch too
Outcome_KeepsCopy(playbook, c, r) ==
    [heap |-> AfterBatch(c, r), ref |-> c.ref, raised |-> r.raised, log |-> r.log]

\* try: return playbook_copy / except Exception: return playbook
Outcome(playbook, c, r) ==
    [heap |-> AfterBatch(c, r), ref |-> IF r.raised THEN playbook ELSE c.ref,
     raised |-> r.raised, log |-> r.log]

\* the try block on the copy c
OnCopy(playbook, c, operations) ==
    Outcome(playbook, c, _apply_curator_operations(c.heap[c.ref], operations))

\* returns the heap after the call, the reference returned, and the log
apply_structured_operations(heap, playbook, operations) ==
    IF operations = <<>>
    THEN [heap |-> heap, ref |-> playbook, raised |-> FALSE, log |-> <<>>]
    ELSE OnCopy(playbook, deepcopy(heap, playbook), operations)

(***************************************************************************)
(* Evaluation counters, pruning                                            *)
(***************************************************************************)
LastIndexNamed(entries, name) ==
    CHOOSE j \in DOMAIN entries :
        /\ entries[j].name = name
        /\ \A k \in DOMAIN entries : entries[k].name = name => k <= j

\* Increment adding 1 to both counters
Increment_Both(pb, name, field) ==
    SetSection(pb, LastItemNamed(pb, name).sec,
       [pb.sections[LastItemNamed(pb, name).sec] EXCEPT
          ![LastIndexNamed(pb.sections[LastItemNamed(pb, name).sec], name)] =
             Put(Put(@, "helpful", @.helpful + 1), "harmful", @.harmful + 1)])

\* name_to_kp[name][field] += 1, name_to_kp keeping the last entry of a name
Increment(pb, name, field) ==
    LET sec == LastItemNamed(pb, name).sec
        i == LastIndexNamed(pb.sections[sec], name)
    IN SetSection(pb, sec,
          [pb.sections[sec] EXCEPT ![i] = Put(@, field, @[field] + 1)])

RECURSIVE apply_bullet_tags(_, _)
apply_bullet_tags(pb, bullet_tags) ==
    IF bullet_tags = <<>> THEN pb
    ELSE LET tag == Head(bullet_tags)
             name == Get(tag, "name", NoName)
             tag_value == Get(tag, "tag", "")
             pb2 == IF name \notin AllNames(pb) THEN pb
                    ELSE IF tag_value = "helpful" THEN Increment(pb, name, "helpful")
                    ELSE IF tag_value = "harmful" THEN Increment(pb, name, "harmful")
                    ELSE pb
         IN apply_bullet_tags(pb2, Tail(bullet_tags))

PRUNE_MIN_HARMFUL == 3

\* ShouldPrune with harmful >= helpful in place of harmful > helpful
ShouldPrune_AtLeast(kp) ==
    Get(kp, "harmful", 0) >= PRUNE_MIN_HARMFUL /\ Get(kp, "harmful", 0) >= Get(kp, "helpful", 0)

\* the test of the pruning loop on one entry
ShouldPrune(kp) ==
    LET harmful == Get(kp, "harmful", 0)
        helpful == Get(kp, "helpful", 0)
    IN harmful >= PRUNE_MIN_HARMFUL /\ harmful > helpful

prune_harmful(pb) ==
    [pb EXCEPT !.sections =
        [s \in DOMAIN pb.sections |->
            SelectSeq(pb.sections[s], LAMBDA kp : ~ShouldPrune(kp))]]

(***************************************************************************)
(* Deduplication                                                           *)
(***************************************************************************)
DEFAULT_THRESHOLD == 85

\* similarities and thresholds are in hundredths
Clamp(t) == Max(0, IF t <= 100 THEN t ELSE 100)

\* the embedding provider: a unit vector in the plane per text, given by
\* its angle in steps of 30 degrees; cosine of the difference in hundredths
Cosine(steps) ==
    CASE steps = 0 -> 100
      [] steps = 1 -> 87
      [] steps = 2 -> 50
      [] OTHER -> 0

Abs(x) == IF x < 0 THEN 0 - x ELSE x

\* sim_matrix[i][j] for the flattened entries
Similarity(embed, t1, t2) == Cosine(Abs(embed[t1] - embed[t2]))

\* flat_entries: canonical sections only, in canonical order
FlatCanonical(pb) ==
    FlatFrom(pb.sections, SelectSeq(SectionOrder, LAMBDA s : s \in DOMAIN pb.sections))

RECURSIVE find(_, _)
\* path-halving find; returns the updated parent array and the root
find(parent, x) ==
    IF parent[x] = x THEN [parent |-> parent, root |-> x]
    ELSE LET p2 == [parent EXCEPT ![x] = parent[parent[x]]]
         IN find(p2, p2[x])

\* union that links two indices only while both are still roots
union_RootsOnly(parent, a, b) ==
    IF parent[a] = a /\ parent[b] = b /\ a # b THEN [parent EXCEPT ![a] = b] ELSE parent

union(parent, a, b) ==
    LET fa == find(parent, a)
        fb == find(fa.parent, b)
    IN IF fa.root # fb.root THEN [fb.parent EXCEPT ![fa.root] = fb.root]
       ELSE fb.parent

RECURSIVE UnionPairs(_, _, _, _, _)
\* for i in range(n): for j in range(i+1, n): if sim >= threshold: union(i, j)
UnionPairs(parent, i, j, n, close) ==
    IF i > n THEN parent
    ELSE IF j > n THEN UnionPairs(parent, i + 1, i + 2, n, close)
    ELSE UnionPairs(IF close[i][j] THEN union(parent, i, j) ELSE parent,
                    i, j + 1, n, close)

RECURSIVE Roots(_, _, _)
\* root of every index, with the path compression the lookups perform
Roots(parent, i, n) ==
    IF i > n THEN <<>>
    ELSE LET f == find(parent, i) IN <<f.root>> \o Roots(f.parent, i + 1, n)

\* components[root] = sorted list of the indices whose root it is
Members(roots, r) == {i \in DOMAIN roots : roots[i] = r}

Min(S) == CHOOSE x \in S : \A y \in S : x <= y

\* Survivor taking the last member of the component
Survivor_Last(members) == CHOOSE x \in members : \A y \in members : y <= x

\* members.sort(); survivor_idx = members[0]
Survivor(members) == Min(members)

\* sum(flat_entries[m][1][field] for m in members)
Total(flat, members, field) ==
    SumSeq([k \in DOMAIN flat |-> IF k \in members THEN flat[k].kp[field] ELSE 0])

\* the two sums of a component can be taken: every member has both counters
\* (a missing key raises KeyError)
Summable(flat, members) ==
    \A m \in members : Has(flat[m].kp, "helpful") /\ Has(flat[m].kp, "harmful")

\* survivor_entry["helpful"] = total_helpful; survivor_entry["harmful"] = total_harmful
AbsorbInto(flat, members) ==
    [flat EXCEPT ![Survivor(members)].kp =
        Put(Put(@, "helpful", Total(flat, members, "helpful")),
            "harmful", Total(flat, members, "harmful"))]

RECURSIVE MergeGroups(_, _, _)
\* for root, members in components.items(): the components come in the
\* order of their smallest index; the entries are updated in place, and a
\* KeyError leaves the loop with the earlier components already updated
MergeGroups(flat, roots, i) ==
    IF i > Len(flat) THEN [flat |-> flat, failed |-> FALSE]
    ELSE IF Min(Members(roots, roots[i])) # i THEN MergeGroups(flat, roots, i + 1)
    ELSE IF Cardinality(Members(roots, roots[i])) <= 1 THEN MergeGroups(flat, roots, i + 1)
    ELSE IF ~Summable(flat, Members(roots, roots[i])) THEN [flat |-> flat, failed |-> TRUE]
    ELSE MergeGroups(AbsorbInto(flat, Members(roots, roots[i])), roots, i + 1)

\* to_remove: the members of a component other than its survivor
ToRemove(roots) ==
    {i \in DOMAIN roots : Survivor(Members(roots, roots[i])) # i}

\* the entries of flat that belong to section s and are not in removed
SectionOf(flat, s, removed) ==
    LET keep == SelectSeq([i \in DOMAIN flat |-> i],
                          LAMBDA i : flat[i].sec = s /\ i \notin removed)
    IN [k \in DOMAIN keep |-> flat[keep[k]].kp]

\* the playbook as the loops leave it: g.flat holds the entries as updated in
\* place; without a failure every canonical section is rewritten without
\* the entries to remove
WriteBack(pb, roots, g) ==
    [pb |-> [pb EXCEPT !.sections =
               [s \in (DOMAIN pb.sections) \cup (IF g.failed THEN {} ELSE Canonical) |->
                   IF s \in Canonical
                   THEN SectionOf(g.flat, s, IF g.failed THEN {} ELSE ToRemove(roots))
                   ELSE pb.sections[s]]],
     failed |-> g.failed]

\* the try block once the components are known
DedupMerge(pb, flat, roots) == WriteBack(pb, roots, MergeGroups(flat, roots, 1))

\* DedupTry merging only the pairs strictly above the threshold
DedupTry_Strict(pb, flat, threshold, embed) ==
    IF \E i \in DOMAIN flat : ~Has(flat[i].kp, "text")
    THEN [pb |-> pb, failed |-> TRUE]
    ELSE DedupMerge(pb, flat,
            Roots(UnionPairs([i \in DOMAIN flat |-> i], 1, 2, Len(flat),
                     [i \in DOMAIN flat |-> [j \in DOMAIN flat |->
                         Similarity(embed, flat[i].kp.text, flat[j].kp.text)
                            > Clamp(threshold)]]),
                  1, Len(flat)))
\* the try block: embed, compare, group, merge
DedupTry(pb, flat, threshold, embed) ==
    IF \E i \in DOMAIN flat : ~Has(flat[i].kp, "text")
    THEN [pb |-> pb, failed |-> TRUE]          \* entry["text"]: KeyError
    ELSE DedupMerge(pb, flat,
            Roots(UnionPairs([i \in DOMAIN flat |-> i], 1, 2, Len(flat),
                     [i \in DOMAIN flat |-> [j \in DOMAIN flat |->
                         Similarity(embed, flat[i].kp.text, flat[j].kp.text)
                            >= Clamp(threshold)]]),
                  1, Len(flat)))

\* the playbook returned and whether the call took a failure path
\* mode: "ok", "unavailable" (ImportError), "encode_error" (the provider raises)
DedupOutcome(pb, threshold, embed, mode) ==
    IF mode = "unavailable" THEN [pb |-> pb, failed |-> TRUE]
    ELSE IF Len(FlatCanonical(pb)) < 2 THEN [pb |-> pb, failed |-> FALSE]
    ELSE IF mode = "encode_error" THEN [pb |-> pb, failed |-> TRUE]
    ELSE DedupTry(pb, FlatCanonical(pb), threshold, embed)

run_deduplication(pb, threshold, embed, mode) == DedupOutcome(pb, threshold, embed, mode).pb

(***************************************************************************)
(* update_playbook_data (precompact hook) and save                         *)
(***************************************************************************)
RECURSIVE AddNewKeyPoints(_, _, _)
\* legacy path: existing_texts is collected once and grows with each insert
AddNewKeyPoints(pb, new_key_points, existing_texts) ==
    IF new_key_points = <<>> THEN pb
    ELSE LET item == Head(new_key_points)
             text == IF Has(item, "str") THEN item.str ELSE Get(item, "text", "")
             section_name == IF Has(item, "str") THEN OTH
                             ELSE _resolve_section(Get(item, "section", ""))
             target_entries == pb.sections[section_name]
             name == generate_keypoint_name(target_entries, SECTION_SLUGS[section_name])
         IN IF text = "" \/ text \in existing_texts
            THEN AddNewKeyPoints(pb, Tail(new_key_points), existing_texts)
            ELSE AddNewKeyPoints(
                    SetSection(pb, section_name,
                       Append(target_entries,
                              [name |-> name, text |-> text, helpful |-> 0, harmful |-> 0])),
                    Tail(new_key_points), existing_texts \cup {text})

RECURSIVE ApplyEvaluations(_, _)
ApplyEvaluations(pb, evaluations) ==
    IF evaluations = <<>> THEN pb
    ELSE LET name == Get(Head(evaluations), "name", NoName)
             rating == Get(Head(evaluations), "rating", "")
             pb2 == IF name \notin AllNames(pb) THEN pb
                    ELSE IF rating = "helpful" THEN Increment(pb, name, "helpful")
                    ELSE IF rating = "harmful" THEN Increment(pb, name, "harmful")
                    ELSE pb
         IN ApplyEvaluations(pb2, Tail(evaluations))

\* EvaluateAndPrune pruning before the evaluations are counted
EvaluateAndPrune_PruneFirst(stage1, evaluations) ==
    [heap |-> [stage1.heap EXCEPT ![stage1.ref] =
                  ApplyEvaluations(prune_harmful(@), evaluations)],
     ref |-> stage1.ref, raised |-> stage1.raised, log |-> stage1.log]

\* evaluations and pruning on the playbook stage1.ref, in place
EvaluateAndPrune(stage1, evaluations) ==
    [heap |-> [stage1.heap EXCEPT ![stage1.ref] =
                  prune_harmful(ApplyEvaluations(@, evaluations))],
     ref |-> stage1.ref, raised |-> stage1.raised, log |-> stage1.log]

\* FirstStage taking the legacy path when the operations list is empty
FirstStage_EmptyIsLegacy(heap, playbook, extraction_result) ==
    IF Has(extraction_result, "operations") /\ extraction_result.operations # <<>>
    THEN OnCopy(playbook, deepcopy(heap, playbook), extraction_result.operations)
    ELSE [heap |-> [heap EXCEPT ![playbook] =
                      AddNewKeyPoints(@, Get(extraction_result, "new_key_points", <<>>),
                                      ExistingTexts(@))],
          ref |-> playbook, raised |-> FALSE, log |-> <<>>]

\* the first stage: a non-empty operations list runs on a copy when the key
\* is present, else the new_key_points are inserted in the playbook itself
FirstStage(heap, playbook, extraction_result) ==
    IF Has(extraction_result, "operations")
    THEN IF extraction_result.operations = <<>>
         THEN [heap |-> heap, ref |-> playbook, raised |-> FALSE, log |-> <<>>]
         ELSE OnCopy(playbook, deepcopy(heap, playbook), extraction_result.operations)
    ELSE [heap |-> [heap EXCEPT ![playbook] =
                      AddNewKeyPoints(@, Get(extraction_result, "new_key_points", <<>>),
                                      ExistingTexts(@))],
          ref |-> playbook, raised |-> FALSE, log |-> <<>>]

\* returns the heap after the call and the reference returned
update_playbook_data(heap, playbook, extraction_result) ==
    EvaluateAndPrune(FirstStage(heap, playbook, extraction_result),
                     Get(extraction_result, "evaluations", <<>>))

\* save_playbook writing the entries as the flat key_points list
save_playbook_Flat(pb, now) ==
    [state |-> "json",
     data |-> Put(Pop(Put(Pop(pb, "key_points"), "last_updated", <<now>>), "sections"),
                  "key_points",
                  [i \in DOMAIN FlatItems(pb) |-> FlatItems(pb)[i].kp])]

\* the record written by save_playbook at time now (sections key present)
save_playbook(pb, now) ==
    [state |-> "json",
     data |-> Put(Pop(pb, "key_points"), "last_updated", <<now>>)]

\* SaveOutcome without the assertion
SaveOutcome_NoAssert(pb, now, d) ==
    [disk |-> [state |-> "json",
               data |-> Put(Pop(pb, "key_points"), "last_updated", <<now>>)],
     pb |-> Put(Pop(pb, "key_points"), "last_updated", <<now>>), raised |-> FALSE]

\* save_playbook(pb) at time now over the record d: the record and the
\* caller's object afterwards, and whether the assertion failed
SaveOutcome(pb, now, d) ==
    IF ~Has(pb, "sections") THEN [disk |-> d, pb |-> pb, raised |-> TRUE]
    ELSE [disk |-> save_playbook(pb, now),
          pb |-> Put(Pop(pb, "key_points"), "last_updated", <<now>>), raised |-> FALSE]

(***************************************************************************)
(* Inputs: persisted records, collaborator outputs                         *)
(***************************************************************************)
MaxLegacy == 2      \* longest legacy key_points list
MaxBatch == 2       \* longest operations list the curator returns
MaxTags == 1        \* longest bullet_tags / evaluations list

P1 == Nm("pat-", <<0, 0, 1>>)
P2 == Nm("pat-", <<0, 0, 2>>)
P3 == Nm("pat-", <<0, 0, 3>>)
O1 == Nm("oth-", <<0, 0, 1>>)
O2 == Nm("oth-", <<0, 0, 2>>)
K1 == Nm("kpt_", <<0, 0, 1>>)
K2 == Nm("kpt_", <<0, 0, 2>>)
K3 == Nm("kpt_", <<0, 0, 3>>)
X9 == Nm("ctx-", <<0, 0, 9>>)

Entry(n, t, h, m) == [name |-> n, text |-> t, helpful |-> h, harmful |-> m]

SeqsUpTo(S, n) == UNION {[1..k -> S] : k \in 0..n}

\* elements of a legacy key_points list, one or more per migration branch
LegacyItems ==
    { [str |-> "a"],
      [name |-> K1, text |-> "b"],
      [text |-> "c", score |-> 0 - 3],
      [name |-> K2, text |-> "d", score |-> 2],
      [name |-> K3, text |-> "e", helpful |-> 1, harmful |-> 0, score |-> 4],
      [text |-> "f", helpful |-> 0, harmful |-> 3] }

\* the names written in a record are pairwise distinct
DistinctNames(l) ==
    \A i, j \in DOMAIN l :
        (i # j /\ Has(l[i], "name") /\ Has(l[j], "name")) => l[i].name # l[j].name

FullSections == [s \in Canonical |->
                   CASE s = PAT -> <<Entry(P1, "A", 5, 1), Entry(P2, "B", 3, 0)>>
                     [] s = OTH -> <<Entry(O1, "C", 0, 3)>>
                     [] OTHER -> <<>>]

\* persisted records in the current format
CurrentRecords ==
    { [version |-> "1.0", last_updated |-> <<1>>, sections |-> FullSections],
      [version |-> "1.0", last_updated |-> <<1>>,
       sections |-> [s \in {OTH} |-> <<Entry(O1, "C", 2, 2)>>]],
      [version |-> "1.0", last_updated |-> <<1>>,
       sections |-> [s \in Canonical \cup {"FOO"} |->
                       IF s = "FOO" THEN <<Entry(X9, "x", 0, 0)>> ELSE FullSections[s]]],
      [version |-> "1.0", last_updated |-> <<1>>,
       sections |-> [s \in Canonical |->
                       IF s = OTH THEN <<Put(Entry(O1, "C", 1, 0), "score", 1)>> ELSE <<>>]],
      [version |-> "1.0", last_updated |-> <<1>>, sections |-> FullSections,
       key_points |-> <<[str |-> "a"]>>],
      [version |-> "1.0", last_updated |-> <<1>>,
       sections |-> [s \in Canonical |->
                       IF s = PAT THEN <<Entry(P1, "A", 0, 2), Entry(P2, "B", 1, 2)>>
                       ELSE <<>>]] }

DiskRecords ==
    { [state |-> "missing"], [state |-> "unparseable"],
      [state |-> "json", data |-> [version |-> "1.0"]],
      [state |-> "json", data |-> [version |-> "1.0", sections |-> [list |-> <<>>]]] }
    \cup { [state |-> "json", data |-> [version |-> "1.0", key_points |-> kps]] :
             kps \in {l \in SeqsUpTo(LegacyItems, MaxLegacy) : DistinctNames(l)} }
    \cup { [state |-> "json", data |-> d] : d \in CurrentRecords }

\* operations the curator returns to the session_end / precompact hooks
HookOps ==
    { [type |-> "ADD", text |-> "n", section |-> "patterns & approaches"],
      [type |-> "MERGE", source_ids |-> <<P1, P2>>, merged_text |-> "m"],
      [str |-> "junk"] }

HookBatches == SeqsUpTo(HookOps, MaxBatch)

\* bullet tags of the reflector
BulletTags ==
    { [name |-> P1, tag |-> "harmful"], [name |-> O1, tag |-> "helpful"],
      [name |-> K1, tag |-> "harmful"] }

\* evaluations of the extraction result
Evaluations ==
    { [name |-> O1, rating |-> "harmful"], [name |-> K1, rating |-> "helpful"],
      [name |-> P1, rating |-> "bogus"] }

NewKeyPoints == { <<>>, <<[str |-> "n"]>>, <<[text |-> "n", section |-> "others"], [str |-> "n"]>>,
                  <<[text |-> "b", section |-> "Mistakes To Avoid"]>> }

HookExtractions ==
    { [operations |-> ops, evaluations |-> ev, new_key_points |-> <<[str |-> "x"]>>] :
         ops \in HookBatches, ev \in SeqsUpTo(Evaluations, MaxTags) }
    \cup { [new_key_points |-> nk, evaluations |-> ev] :
         nk \in NewKeyPoints, ev \in SeqsUpTo(Evaluations, MaxTags) }

\* the texts of the inputs, in a fixed order
AllTexts == <<"A", "B", "C", "a", "b", "c", "d", "e", "f", "n", "m", "x", "u">>

TextRank(t) == CHOOSE i \in DOMAIN AllTexts : AllTexts[i] = t

\* two embedding providers: "near" puts neighbouring texts 30 degrees apart,
\* "far" puts any two texts at least 90 degrees apart
Providers == {"near", "far"}

Embedding(provider, T) ==
    [t \in T |-> IF provider = "near" THEN TextRank(t) ELSE 3 * TextRank(t)]

Times == {2, 3}

TextsOf(pb) == {it.kp.text : it \in Range(FlatCanonical(pb))}

(***************************************************************************)
(* State                                                                   *)
(***************************************************************************)
VARIABLES
    disk,       \* the persisted record .claude/playbook.json
    heap,       \* playbook objects of the running hook
    playbook,   \* the hook's local variable: a reference into heap, 0 before load
    hook,       \* which hook runs: "session_end", "precompact", "engine"
    pc,         \* position of the hook in its main()
    last        \* the last engine call: its inputs, argument snapshot and outcome

SourceIdLists ==
    { <<P1>>, <<P1, P2>>, <<O1, P1>>, <<P1, P1>>, <<P1, P1, P2>>,
      <<P1, O1, P2>>, <<X9, P2>>, <<P3, O1>> }

CuratorOps ==
    { [type |-> "ADD", text |-> t] : t \in {"n", "A", " "} }
    \cup { [type |-> "ADD", text |-> "n", section |-> sec] :
             sec \in {"patterns & approaches", "bogus"} }
    \cup { [type |-> "ADD"] }
    \cup { [type |-> "MERGE", source_ids |-> ids, merged_text |-> "m"] :
             ids \in SourceIdLists }
    \cup { [type |-> "MERGE", source_ids |-> <<P1, P2>>, merged_text |-> " "] }
    \cup { [type |-> "MERGE", source_ids |-> ids, merged_text |-> "m", section |-> sec] :
             ids \in {<<P1, P2>>, <<O1, P1>>}, sec \in {" others ", "  "} }
    \cup { [type |-> "UPDATE", target_id |-> P1, text |-> t] : t \in {"u", " ", "B"} }
    \cup { [type |-> "UPDATE", target_id |-> P3, text |-> "u"], [type |-> "UPDATE", text |-> "u"] }
    \cup { [type |-> "DELETE", target_id |-> id, reason |-> "r"] : id \in {P1, P3, O1, K1} }
    \cup { [type |-> "DELETE"], [type |-> "RENAME", target_id |-> P1], [text |-> "n"],
           [str |-> "junk"] }

CuratorBatches == SeqsUpTo(CuratorOps, MaxBatch)

EngineDisks ==
    { [state |-> "missing"],
      [state |-> "json",
       data |-> [version |-> "1.0", last_updated |-> <<1>>, sections |-> FullSections]] }

\* the records the engine is run on: the above and a legacy record whose
\* string element is given the name the next element carries
OpsDisks ==
    EngineDisks
    \cup { [state |-> "json",
            data |-> [version |-> "1.0",
                      key_points |-> <<[str |-> "a"], [name |-> K1, text |-> "b"]>>]] }

(***************************************************************************)
(* Long batches: up to MaxLong ADD operations with distinct texts, one of  *)
(* them possibly replaced by an operation of another kind                  *)
(***************************************************************************)
MaxLong == 12       \* longest batch handed to the engine

LongTexts == <<"t01", "t02", "t03", "t04", "t05", "t06", "t07",
               "t08", "t09", "t10", "t11", "t12", "t13", "t14">>

\* what may stand in for one ADD of a long batch
AltOps ==
    { [type |-> "DELETE", target_id |-> O1, reason |-> "r"],
      [type |-> "MERGE", source_ids |-> <<O1, O2>>, merged_text |-> "m"],
      [type |-> "UPDATE", target_id |-> O1, text |-> "u"],
      [type |-> "ADD", text |-> " "],
      [str |-> "junk"] }

AddBatch(n) == [i \in 1..n |-> [type |-> "ADD", text |-> LongTexts[i]]]

LongBatches ==
    {AddBatch(n) : n \in 0..MaxLong}
    \cup {[AddBatch(n) EXCEPT ![k] = alt] : n \in 1..MaxLong, k \in 1..MaxLong, alt \in AltOps}

\* curator_output.get("operations", []) as the running hook receives it
\* operations of the four types for the run through every pass
PassOps ==
    { [type |-> "ADD", text |-> "n", section |-> "patterns & approaches"],
      [type |-> "MERGE", source_ids |-> <<P1, P2>>, merged_text |-> "m"],
      [type |-> "MERGE", source_ids |-> <<O1, P1>>, merged_text |-> "m",
       section |-> "patterns & approaches"],
      [type |-> "UPDATE", target_id |-> P1, text |-> "u"],
      [type |-> "DELETE", target_id |-> P1, reason |-> "r"] }

PassBatches == SeqsUpTo(PassOps, MaxBatch)

CuratorOutputs ==
    CASE hook = "engine" -> CuratorBatches
      [] hook = "long_batch" -> LongBatches
      [] hook = "passes" -> PassBatches
      [] OTHER -> HookBatches

\* the extraction result as the running hook receives it
ExtractionResults ==
    CASE hook = "long_batch" ->
            {[operations |-> ops, evaluations |-> <<>>] : ops \in LongBatches}
      [] OTHER -> HookExtractions

vars == <<disk, heap, playbook, hook, pc, last>>

NoCall == [op |-> "none", arg |-> 0, before |-> <<>>, input |-> <<>>,
           raised |-> FALSE, log |-> <<>>]

Call(op, arg, before, input, raised, log) ==
    [op |-> op, arg |-> arg, before |-> before, input |-> input,
     raised |-> raised, log |-> log]

Init ==
    /\ disk \in DiskRecords
    /\ heap = <<>>
    /\ playbook = 0
    /\ hook \in {"session_end", "precompact"}
    /\ pc = "start"
    /\ last = NoCall

\* playbook = <call>(playbook, input): the hook rebinds its variable to the
\* object returned
Returns(op, input, r) ==
    /\ heap' = r.heap
    /\ playbook' = r.ref
    /\ last' = Call(op, playbook, heap[playbook], input, r.raised, r.log)

\* playbook = load_playbook()
LoadPlaybook ==
    /\ pc = "start"
    /\ heap' = <<load_playbook(disk)>>
    /\ playbook' = 1
    /\ pc' = "loaded"
    /\ last' = Call("load_playbook", 0, <<>>, disk, LoadOutcome(disk).raised, <<>>)
    /\ UNCHANGED <<disk, hook>>

\* apply_bullet_tags(playbook, reflector_output.get("bullet_tags", []))
ApplyBulletTags ==
    /\ hook = "session_end"
    /\ pc = "loaded"
    /\ \E bullet_tags \in SeqsUpTo(BulletTags, MaxTags) :
          /\ heap' = [heap EXCEPT ![playbook] = apply_bullet_tags(@, bullet_tags)]
          /\ last' = Call("apply_bullet_tags", playbook, heap[playbook], bullet_tags,
                          FALSE, <<>>)
    /\ pc' = "tagged"
    /\ UNCHANGED <<disk, playbook, hook>>

\* playbook = apply_structured_operations(playbook, curator_output.get("operations", []))
ApplyStructuredOperations ==
    /\ \/ hook = "session_end" /\ pc = "tagged"
       \/ hook \in {"engine", "long_batch", "passes"} /\ pc = "loaded"
    /\ \E operations \in CuratorOutputs :
          Returns("apply_structured_operations", operations,
                  apply_structured_operations(heap, playbook, operations))
    /\ pc' = "curated"
    /\ UNCHANGED <<disk, hook>>

\* playbook = run_deduplication(playbook); the provider's embeddings and its
\* availability are inputs
RunDeduplication ==
    /\ hook \in {"session_end", "passes"}
    /\ pc = "curated"
    /\ \E mode \in {"ok", "unavailable", "encode_error"} :
         \E provider \in Providers :
            /\ heap' = [heap EXCEPT ![playbook] =
                          run_deduplication(@, DEFAULT_THRESHOLD,
                                            Embedding(provider, TextsOf(@)), mode)]
            /\ last' = Call("run_deduplication", playbook, heap[playbook],
                            [mode |-> mode, provider |-> provider],
                            DedupOutcome(heap[playbook], DEFAULT_THRESHOLD,
                                         Embedding(provider, TextsOf(heap[playbook])),
                                         mode).failed,
                            <<>>)
    /\ pc' = "deduped"
    /\ UNCHANGED <<disk, playbook, hook>>

\* PruneHarmful placed ahead of deduplication
PruneHarmful_BeforeDedup ==
    /\ hook = "session_end"
    /\ pc = "curated"
    /\ heap' = [heap EXCEPT ![playbook] = prune_harmful(@)]
    /\ pc' = "curated"
    /\ last' = Call("prune_harmful", playbook, heap[playbook], <<>>, FALSE, <<>>)
    /\ UNCHANGED <<disk, playbook, hook>>

\* playbook = prune_harmful(playbook)
PruneHarmful ==
    /\ hook \in {"session_end", "passes"}
    /\ pc = "deduped"
    /\ heap' = [heap EXCEPT ![playbook] = prune_harmful(@)]
    /\ pc' = "pruned"
    /\ last' = Call("prune_harmful", playbook, heap[playbook], <<>>, FALSE, <<>>)
    /\ UNCHANGED <<disk, playbook, hook>>

\* playbook = update_playbook_data(playbook, extraction_result)
UpdatePlaybookData ==
    /\ hook \in {"precompact", "long_batch"}
    /\ pc = "loaded"
    /\ \E extraction_result \in ExtractionResults :
          Returns("update_playbook_data", extraction_result,
                  update_playbook_data(heap, playbook, extraction_result))
    /\ pc' = "updated"
    /\ UNCHANGED <<disk, hook>>

\* save_playbook(playbook)
SavePlaybook ==
    /\ \/ hook \in {"session_end", "passes"} /\ pc = "pruned"
       \/ hook = "precompact" /\ pc = "updated"
    /\ \E now \in Times :
          /\ disk' = save_playbook(heap[playbook], now)
          /\ heap' = [heap EXCEPT ![playbook] =
                        Put(Pop(@, "key_points"), "last_updated", <<now>>)]
          /\ last' = Call("save_playbook", playbook, heap[playbook], now, FALSE, <<>>)
    /\ pc' = "saved"
    /\ UNCHANGED <<playbook, hook>>

Next ==
    \/ LoadPlaybook
    \/ ApplyBulletTags
    \/ ApplyStructuredOperations
    \/ RunDeduplication
    \/ PruneHarmful
    \/ UpdatePlaybookData
    \/ SavePlaybook

Spec == Init /\ [][Next]_vars


(***************************************************************************)
(* The curator engine on its own: load, then one batch from a wider set of *)
(* operations                                                              *)
(***************************************************************************)
InitOps ==
    /\ disk \in OpsDisks
    /\ heap = <<>>
    /\ playbook = 0
    /\ hook = "engine"
    /\ pc = "start"
    /\ last = NoCall

NextOps ==
    \/ LoadPlaybook
    \/ ApplyStructuredOperations

SpecOps == InitOps /\ [][NextOps]_vars

InitLong ==
    /\ disk \in EngineDisks
    /\ heap = <<>>
    /\ playbook = 0
    /\ hook = "long_batch"
    /\ pc = "start"
    /\ last = NoCall

NextLong ==
    \/ LoadPlaybook
    \/ ApplyStructuredOperations
    \/ UpdatePlaybookData

SpecLong == InitLong /\ [][NextLong]_vars

\* session_end from load to save on the engine's records, without bullet
\* tags and with operations of the four types
InitPasses ==
    /\ disk \in OpsDisks
    /\ heap = <<>>
    /\ playbook = 0
    /\ hook = "passes"
    /\ pc = "start"
    /\ last = NoCall

NextPasses ==
    \/ LoadPlaybook
    \/ ApplyStructuredOperations
    \/ RunDeduplication
    \/ PruneHarmful
    \/ SavePlaybook

SpecPasses == InitPasses /\ [][NextPasses]_vars


(***************************************************************************)
(* run_deduplication on its own: one call on a playbook of up to          *)
(* MaxEntries entries, with the provider's embeddings, its availability    *)
(* and the threshold as inputs                                             *)
(***************************************************************************)
MaxEntries == 4     \* most entries of a playbook handed to run_deduplication

DedupTexts == <<"A", "B", "C", "D", "E", "F">>

RECURSIVE Pow2(_)
Pow2(k) == IF k = 0 THEN 1 ELSE 2 * Pow2(k - 1)

\* the i-th entry: the first two live in PATTERNS & APPROACHES, the others
\* in OTHERS; helpful counters are distinct powers of two
DedupEntry(i) ==
    [sec |-> IF i <= 2 THEN PAT ELSE OTH,
     kp |-> Entry(IF i <= 2 THEN Nm("pat-", Format03d(i)) ELSE Nm("oth-", Format03d(i - 2)),
                  DedupTexts[i], Pow2(i - 1), i)]

\* a playbook of n entries, those of the set bare lacking the harmful key
DedupPlaybook(n, bare) ==
    [version |-> "1.0", last_updated |-> <<1>>,
     sections |-> [s \in Canonical |->
        SectionOf([i \in 1..n |-> IF i \in bare
                                  THEN [sec |-> DedupEntry(i).sec,
                                        kp |-> Pop(DedupEntry(i).kp, "harmful")]
                                  ELSE DedupEntry(i)], s, {})]]

DedupPlaybooks == {DedupPlaybook(n, bare) : n \in 0..MaxEntries, bare \in SUBSET (1..MaxEntries)}

\* angles of the embeddings, in steps of 30 degrees
Angles == {0, 1, 2, 5}

\* threshold arguments: the default, a lower one, one above 1.0
Thresholds == {DEFAULT_THRESHOLD, 40, 150}

InitDedup ==
    /\ disk = [state |-> "missing"]
    /\ heap \in {<<pb>> : pb \in DedupPlaybooks}
    /\ playbook = 1
    /\ hook = "run_deduplication"
    /\ pc = "start"
    /\ last = NoCall

\* a call that works on the caller's object and returns it
InPlace(op, input, r) ==
    /\ heap' = [heap EXCEPT ![playbook] = r.pb]
    /\ last' = Call(op, playbook, heap[playbook], input, r.failed, <<>>)

\* playbook = run_deduplication(playbook, threshold)
CallRunDeduplication ==
    /\ hook = "run_deduplication"
    /\ pc = "start"
    /\ \E mode \in {"ok", "unavailable", "encode_error"} :
         \E threshold \in IF mode = "ok" THEN Thresholds ELSE {DEFAULT_THRESHOLD} :
            \E embed \in IF mode = "ok" THEN [TextsOf(heap[playbook]) -> Angles]
                         ELSE {[t \in TextsOf(heap[playbook]) |-> 0]} :
               InPlace("run_deduplication",
                       [mode |-> mode, threshold |-> threshold, embed |-> embed],
                       DedupOutcome(heap[playbook], threshold, embed, mode))
    /\ pc' = "returned"
    /\ UNCHANGED <<disk, playbook, hook>>

NextDedup == CallRunDeduplication

SpecDedup == InitDedup /\ [][NextDedup]_vars

\* playbook = run_deduplication(playbook, threshold) once more, with the
\* provider and the threshold of the first call
CallRunDeduplicationAgain ==
    /\ hook = "run_deduplication"
    /\ pc = "returned"
    /\ InPlace("run_deduplication", last.input,
               DedupOutcome(heap[playbook], last.input.threshold, last.input.embed,
                            last.input.mode))
    /\ pc' = "repeated"
    /\ UNCHANGED <<disk, playbook, hook>>

NextDedupTwice ==
    \/ CallRunDeduplication
    \/ CallRunDeduplicationAgain

SpecDedupTwice == InitDedup /\ [][NextDedupTwice]_vars


(***************************************************************************)
(* prune_harmful on its own: one call on a playbook of up to three         *)
(* entries whose counters range over 0..MaxCount                           *)
(***************************************************************************)
MaxCount == 4       \* largest counter value of an entry handed to prune_harmful

\* an entry as it may stand in a section: with both counters, or with none
CounterShapes(n, t) ==
    {Entry(n, t, h, m) : h \in 0..MaxCount, m \in 0..MaxCount} \cup {[name |-> n, text |-> t]}

\* zero or one entry
Optional(S) == {<<>>} \cup {<<e>> : e \in S}

PrunePlaybooks ==
    { [version |-> "1.0", last_updated |-> <<1>>,
       sections |-> [s \in Canonical |->
                       CASE s = PAT -> a \o b
                         [] s = OTH -> c
                         [] OTHER -> <<>>]] :
        a \in Optional(CounterShapes(P1, "A")),
        b \in Optional(CounterShapes(P2, "B")),
        c \in Optional(CounterShapes(O1, "C")) }

InitPrune ==
    /\ disk = [state |-> "missing"]
    /\ heap \in {<<pb>> : pb \in PrunePlaybooks}
    /\ playbook = 1
    /\ hook = "prune_harmful"
    /\ pc = "start"
    /\ last = NoCall

\* playbook = prune_harmful(playbook)
CallPruneHarmful ==
    /\ hook = "prune_harmful"
    /\ pc = "start"
    /\ InPlace("prune_harmful", <<>>, [pb |-> prune_harmful(heap[playbook]), failed |-> FALSE])
    /\ pc' = "returned"
    /\ UNCHANGED <<disk, playbook, hook>>

NextPrune == CallPruneHarmful

SpecPrune == InitPrune /\ [][NextPrune]_vars


(***************************************************************************)
(* generate_keypoint_name on its own: one call on a section of up to       *)
(* MaxNames entries with names of several shapes                           *)
(***************************************************************************)
MaxNames == 2       \* most entries of the section handed to generate_keypoint_name

\* names with three digits, with fewer and with more, of another slug, of
\* the legacy form, without digits; and an entry without a name
NameShapes ==
    { [name |-> Nm("pat-", <<0, 0, 1>>)], [name |-> Nm("pat-", <<0, 0, 3>>)],
      [name |-> Nm("pat-", <<9, 9, 9>>)], [name |-> Nm("pat-", <<7>>)],
      [name |-> Nm("pat-", <<1, 2>>)], [name |-> Nm("pat-", <<0, 0, 0, 5>>)],
      [name |-> Nm("pat-", <<>>)], [name |-> Nm("oth-", <<0, 0, 4>>)],
      [name |-> Nm("kpt_", <<0, 0, 9>>)], [text |-> "x"] }

NamePlaybooks ==
    { [version |-> "1.0", last_updated |-> <<1>>,
       sections |-> [s \in Canonical |-> IF s = PAT THEN l ELSE <<>>]] :
         l \in SeqsUpTo(NameShapes, MaxNames) }

InitNames ==
    /\ disk = [state |-> "missing"]
    /\ heap \in {<<pb>> : pb \in NamePlaybooks}
    /\ playbook = 1
    /\ hook = "generate_keypoint_name"
    /\ pc = "start"
    /\ last = NoCall

\* name = generate_keypoint_name(target_entries, slug); the name returned is
\* recorded as the only element of the log
CallGenerateKeypointName ==
    /\ hook = "generate_keypoint_name"
    /\ pc = "start"
    /\ \E slug \in {"pat", "oth"} :
          last' = Call("generate_keypoint_name", playbook, heap[playbook], slug, FALSE,
                       <<generate_keypoint_name(heap[playbook].sections[PAT], slug)>>)
    /\ pc' = "returned"
    /\ UNCHANGED <<disk, heap, playbook, hook>>

NextNames == CallGenerateKeypointName

SpecNames == InitNames /\ [][NextNames]_vars


(***************************************************************************)
(* The playbook store on its own: save_playbook on a playbook object the   *)
(* caller built, or load_playbook, save_playbook of what was loaded and    *)
(* load_playbook again                                                     *)
(***************************************************************************)
\* playbook objects handed to save_playbook by a caller
StorePlaybooks ==
    { _default_playbook,
      [version |-> "1.0", last_updated |-> NoTime, sections |-> FullSections,
       key_points |-> <<[str |-> "a"]>>],
      [version |-> "1.0", last_updated |-> NoTime,
       sections |-> [s \in {PAT} |-> <<Entry(P1, "A", 5, 1)>>]],
      [version |-> "1.0", last_updated |-> NoTime],
      [version |-> "1.0", key_points |-> <<[str |-> "a"]>>] }

InitStore ==
    /\ disk \in DiskRecords
    /\ \E pb \in StorePlaybooks : heap = <<pb>>
    /\ playbook = 1
    /\ hook = "store"
    /\ pc = "start"
    /\ last = NoCall

\* playbook = load_playbook(): a new object
StoreLoad ==
    /\ hook = "store"
    /\ pc \in {"start", "saved"}
    /\ heap' = Append(heap, load_playbook(disk))
    /\ playbook' = Len(heap) + 1
    /\ pc' = IF pc = "start" THEN "loaded" ELSE "reloaded"
    /\ last' = Call("load_playbook", 0, <<>>, disk, LoadOutcome(disk).raised, <<>>)
    /\ UNCHANGED <<disk, hook>>

\* save_playbook(playbook), on the caller's object or on the loaded one
StoreSave ==
    /\ hook = "store"
    /\ pc \in {"start", "loaded"}
    /\ \E now \in Times :
          /\ disk' = SaveOutcome(heap[playbook], now, disk).disk
          /\ heap' = [heap EXCEPT ![playbook] = SaveOutcome(@, now, disk).pb]
          /\ last' = Call("save_playbook", playbook, heap[playbook],
                          [now |-> now, disk |-> disk],
                          SaveOutcome(heap[playbook], now, disk).raised, <<>>)
          /\ pc' = IF SaveOutcome(heap[playbook], now, disk).raised THEN "failed"
                   ELSE IF pc = "start" THEN "written" ELSE "saved"
    /\ UNCHANGED <<playbook, hook>>

NextStore ==
    \/ StoreLoad
    \/ StoreSave

SpecStore == InitStore /\ [][NextStore]_vars


(***************************************************************************)
(* Two invocations of session_end on one playbook.json.  The file is a     *)
(* sequence of units; unit i of the text json.dump produces for a record   *)
(* is [of |-> record, at |-> i], one unit for the head, one per entry and  *)
(* one for the closing brace.  open(path, "w") truncates the file and      *)
(* leaves the writer at offset 0; the text reaches the file at that offset *)
(* when the with-block closes it.                                          *)
(***************************************************************************)
Invocations == {1, 2}

\* json.dump(playbook, f, indent=2)
Serialize(data) ==
    [i \in 1..(2 + Cardinality(DOMAIN FlatItems(data))) |-> [of |-> data, at |-> i]]

\* a write of content at offset 0 of a file holding units
Overlay(units, content) ==
    [i \in 1..Max(Len(units), Len(content)) |->
        IF i <= Len(content) THEN content[i] ELSE units[i]]

\* what open() and json.load(f) make of the file
FileRecord(f) ==
    IF f.state = "missing" THEN f
    ELSE IF /\ f.units # <<>>
            /\ f.units = Serialize(f.units[1].of)
         THEN [state |-> "json", data |-> f.units[1].of]
         ELSE [state |-> "unparseable"]

\* the operations the curator returns to either invocation
OverlapBatches ==
    { <<>>,
      <<[type |-> "ADD", text |-> "n"]>>,
      <<[type |-> "DELETE", target_id |-> P1, reason |-> "r"]>> }

InitOverlap ==
    /\ disk \in { [state |-> "missing"],
                  [state |-> "bytes",
                   units |-> Serialize([version |-> "1.0", last_updated |-> <<1>>,
                                        sections |-> FullSections])] }
    /\ heap = <<>>
    /\ playbook = [p \in Invocations |-> 0]
    /\ hook = "overlap"
    /\ pc = [p \in Invocations |-> "start"]
    /\ last = NoCall

\* the event is added to the history kept in last.log
Event(p, op) ==
    Call(op, p, <<>>, <<>>, FALSE, Append(last.log, [by |-> p, op |-> op]))

\* playbook = load_playbook()
OverlapLoad ==
    /\ hook = "overlap"
    /\ \E p \in Invocations :
          /\ pc[p] = "start"
          /\ heap' = Append(heap, load_playbook(FileRecord(disk)))
          /\ playbook' = [playbook EXCEPT ![p] = Len(heap) + 1]
          /\ pc' = [pc EXCEPT ![p] = "loaded"]
          /\ last' = Event(p, "load_playbook")
    /\ UNCHANGED <<disk, hook>>

\* playbook = apply_structured_operations(playbook, operations)
OverlapCurate ==
    /\ hook = "overlap"
    /\ \E p \in Invocations :
          /\ pc[p] = "loaded"
          /\ \E operations \in OverlapBatches :
                /\ heap' = apply_structured_operations(heap, playbook[p], operations).heap
                /\ playbook' = [playbook EXCEPT ![p] =
                      apply_structured_operations(heap, playbook[p], operations).ref]
          /\ pc' = [pc EXCEPT ![p] = "curated"]
          /\ last' = Event(p, "apply_structured_operations")
    /\ UNCHANGED <<disk, hook>>

\* save_playbook up to and including open(playbook_path, "w")
OverlapOpen ==
    /\ hook = "overlap"
    /\ \E p \in Invocations :
          /\ pc[p] = "curated"
          /\ \E now \in Times :
                heap' = [heap EXCEPT ![playbook[p]] =
                           Put(Pop(@, "key_points"), "last_updated", <<now>>)]
          /\ disk' = [state |-> "bytes", units |-> <<>>]
          /\ pc' = [pc EXCEPT ![p] = "opened"]
          /\ last' = Event(p, "open")
    /\ UNCHANGED <<playbook, hook>>

\* json.dump and the end of the with-block of save_playbook
OverlapWrite ==
    /\ hook = "overlap"
    /\ \E p \in Invocations :
          /\ pc[p] = "opened"
          /\ disk' = [state |-> "bytes",
                      units |-> Overlay(disk.units, Serialize(heap[playbook[p]]))]
          /\ pc' = [pc EXCEPT ![p] = "saved"]
          /\ last' = Event(p, "save_playbook")
    /\ UNCHANGED <<heap, playbook, hook>>

NextOverlap ==
    \/ OverlapLoad
    \/ OverlapCurate
    \/ OverlapOpen
    \/ OverlapWrite

SpecOverlap == InitOverlap /\ [][NextOverlap]_vars


(***************************************************************************)
(* The LLM collaborator: extract_keypoints, run_reflector and run_curator  *)
(* call client.messages.create in a retry loop, read the response text    *)
(* and build their result from it; the hook then runs the stage that       *)
(* depends on the result                                                   *)
(***************************************************************************)
MAX_RETRIES == 3

LLMCallers == {"extract_keypoints", "run_reflector", "run_curator"}

\* the exceptions client.messages.create raises
ApiErrors ==
    { [error |-> "APITimeoutError"], [error |-> "APIConnectionError"],
      [error |-> "RateLimitError"], [error |-> "InternalServerError"],
      [error |-> "APIStatusError", status_code |-> 503],
      [error |-> "APIStatusError", status_code |-> 400],
      [error |-> "APIResponseValidationError"], [error |-> "APIError"],
      [error |-> "Exception"] }

\* JSON objects a response may hold: one with every expected key, one with
\* none of them
JsonObjects ==
    { [new_key_points |-> <<[str |-> "n"]>>,
       evaluations |-> <<[name |-> P1, rating |-> "helpful"]>>,
       analysis |-> "a",
       bullet_tags |-> <<[name |-> P1, tag |-> "helpful"]>>,
       reasoning |-> "r",
       operations |-> <<[type |-> "ADD", text |-> "n"]>>],
      [note |-> "x"] }

\* JSON values that are not objects: an array, a string
JsonScalars == { [list |-> <<1, 2>>], [str |-> "x"] }

\* response texts: nothing, prose without JSON, a JSON value alone or in a
\* ```json fence, a JSON object inside prose
Responses ==
    { [shape |-> "empty"], [shape |-> "prose"] }
    \cup { [shape |-> sh, body |-> v] :
             sh \in {"bare", "fenced"}, v \in JsonObjects \cup JsonScalars }
    \cup { [shape |-> "embedded", body |-> v] : v \in JsonObjects }

\* Retryable taking every APIStatusError for transient
Retryable_AnyStatus(o) ==
    o.error \in {"APITimeoutError", "APIConnectionError", "RateLimitError",
                 "InternalServerError", "APIStatusError"}

\* transient failures: timeout, connection, 429, 500, any other 5xx
Retryable(o) ==
    \/ o.error \in {"APITimeoutError", "APIConnectionError", "RateLimitError",
                    "InternalServerError"}
    \/ o.error = "APIStatusError" /\ o.status_code >= 500

\* NextStep sleeping after the last attempt too
NextStep_SleepsAfterLast(o, attempt) ==
    IF Retryable(o) THEN "sleep" ELSE "return"

\* what follows the failure o of attempt number attempt (counted from 0)
NextStep(o, attempt) ==
    IF Retryable(o) /\ attempt < MAX_RETRIES - 1 THEN "sleep" ELSE "return"

\* the result each caller returns on failure
EmptyResult(caller) ==
    CASE caller = "extract_keypoints" -> [new_key_points |-> <<>>, evaluations |-> <<>>]
      [] caller = "run_reflector" -> [analysis |-> "", bullet_tags |-> <<>>]
      [] caller = "run_curator" -> [reasoning |-> "", operations |-> <<>>]

\* from the response text to the result: extract_keypoints takes the text
\* of a ```json fence or the whole text and json.loads it; the other two
\* use _extract_json_robust, which also finds an object inside prose.  A
\* JSON value that is not an object has no .get: the AttributeError leaves
\* extract_keypoints, while run_reflector and run_curator catch it
Respond(caller, response) ==
    LET robust == caller # "extract_keypoints"
        found == \/ response.shape \in {"bare", "fenced"}
                 \/ response.shape = "embedded" /\ robust
        v == response.body
    IN IF ~found THEN [raised |-> FALSE, value |-> EmptyResult(caller)]
       ELSE IF Has(v, "list") \/ Has(v, "str")
       THEN IF robust THEN [raised |-> FALSE, value |-> EmptyResult(caller)]
            ELSE [raised |-> TRUE, value |-> [error |-> "AttributeError"]]
       ELSE [raised |-> FALSE,
             value |->
               CASE caller = "extract_keypoints" ->
                      IF Has(v, "operations")
                      THEN [new_key_points |-> Get(v, "new_key_points", <<>>),
                            evaluations |-> Get(v, "evaluations", <<>>),
                            operations |-> v.operations]
                      ELSE [new_key_points |-> Get(v, "new_key_points", <<>>),
                            evaluations |-> Get(v, "evaluations", <<>>)]
                 [] caller = "run_reflector" ->
                      [analysis |-> Get(v, "analysis", ""),
                       bullet_tags |-> Get(v, "bullet_tags", <<>>)]
                 [] caller = "run_curator" ->
                      [reasoning |-> Get(v, "reasoning", ""),
                       operations |-> Get(v, "operations", <<>>)]]

\* the hook has loaded its playbook and enters one of the three callers
InitLLM ==
    /\ disk \in EngineDisks
    /\ heap = <<load_playbook(disk)>>
    /\ playbook = 1
    /\ hook \in LLMCallers
    /\ pc = "start"
    /\ last = Call(hook, playbook, heap[playbook], <<>>, FALSE, <<>>)

\* the SDK is not installed, or no model or API key is configured
ReturnWithoutCalling ==
    /\ hook \in LLMCallers
    /\ pc = "start"
    /\ last' = [last EXCEPT !.log = <<[ev |-> "return", value |-> EmptyResult(hook)]>>]
    /\ pc' = "returned"
    /\ UNCHANGED <<disk, heap, playbook, hook>>

\* one pass of "for attempt in range(MAX_RETRIES)": the call, and the except
\* clause that catches what it raised
CallCreate ==
    /\ hook \in LLMCallers
    /\ pc \in {"start", "calling"}
    /\ LET attempt == Cardinality({i \in DOMAIN last.log : last.log[i].ev = "attempt"})
       IN /\ attempt < MAX_RETRIES
          /\ \E o \in ApiErrors \cup Responses :
                LET tried == Append(last.log, [ev |-> "attempt", outcome |-> o])
                IN IF Has(o, "shape")
                   THEN /\ last' = [last EXCEPT !.log = tried]
                        /\ pc' = "responded"
                   ELSE IF NextStep(o, attempt) = "sleep"
                   THEN /\ last' = [last EXCEPT !.log = tried]
                        /\ pc' = "sleeping"
                   ELSE /\ last' = [last EXCEPT !.log =
                                      Append(tried, [ev |-> "return",
                                                     value |-> EmptyResult(hook)])]
                        /\ pc' = "returned"
    /\ UNCHANGED <<disk, heap, playbook, hook>>

\* time.sleep(delay); continue
Sleep ==
    /\ hook \in LLMCallers
    /\ pc = "sleeping"
    /\ last' = [last EXCEPT !.log = Append(@, [ev |-> "sleep"])]
    /\ pc' = "calling"
    /\ UNCHANGED <<disk, heap, playbook, hook>>

\* after the loop: the text of the response is read and the result built
ParseResponse ==
    /\ hook \in LLMCallers
    /\ pc = "responded"
    /\ LET r == Respond(hook, last.log[Len(last.log)].outcome)
       IN /\ last' = [last EXCEPT
                         !.log = Append(@, [ev |-> IF r.raised THEN "raise" ELSE "return",
                                            value |-> r.value]),
                         !.raised = r.raised]
          /\ pc' = IF r.raised THEN "raised" ELSE "returned"
    /\ UNCHANGED <<disk, heap, playbook, hook>>

\* the stage of the hook that consumes the result: update_playbook_data in
\* precompact, apply_bullet_tags and apply_structured_operations in
\* session_end
DependentStage ==
    /\ hook \in LLMCallers
    /\ pc = "returned"
    /\ LET result == last.log[Len(last.log)].value
       IN CASE hook = "extract_keypoints" ->
                 Returns("update_playbook_data", result,
                         update_playbook_data(heap, playbook, result))
            [] hook = "run_reflector" ->
                 /\ heap' = [heap EXCEPT ![playbook] =
                               apply_bullet_tags(@, result.bullet_tags)]
                 /\ playbook' = playbook
                 /\ last' = Call("apply_bullet_tags", playbook, heap[playbook],
                                 result.bullet_tags, FALSE, <<>>)
            [] hook = "run_curator" ->
                 Returns("apply_structured_operations", result.operations,
                         apply_structured_operations(heap, playbook, result.operations))
    /\ pc' = "applied"
    /\ UNCHANGED <<disk, hook>>

NextLLM ==
    \/ ReturnWithoutCalling
    \/ CallCreate
    \/ Sleep
    \/ ParseResponse
    \/ DependentStage

SpecLLM == InitLLM /\ [][NextLLM]_vars

(***************************************************************************)
(* The user-prompt hook: injects the playbook on the first prompt of a     *)
(* session.  The hook has its own is_first_message, mark_session and       *)
(* format_playbook; disk holds playbook.json and last_session.txt          *)
(***************************************************************************)
Sessions == {"s1", "s2"}

\* last_session.txt: absent, or holding a session id
SessionFiles == {[exists |-> FALSE]} \cup {[exists |-> TRUE, text |-> s] : s \in Sessions}

\* session_id != last_session_id when the file exists, else True
is_first_message(session_file, session_id) ==
    IF session_file.exists THEN session_id # session_file.text ELSE TRUE

\* the hook's format_playbook: one line "- text" per element of the
\* key_points list of the playbook, "" when the list is missing or empty
format_playbook(pb) ==
    LET key_points == Get(pb, "key_points", <<>>)
    IN IF key_points = <<>> THEN <<>>
       ELSE [k \in DOMAIN key_points |->
               [dash |-> IF Has(key_points[k], "str") THEN key_points[k].str
                         ELSE key_points[k].text]]

InitInject ==
    /\ disk \in {[playbook |-> d, last_session |-> f] : d \in DiskRecords, f \in SessionFiles}
    /\ heap = <<>>
    /\ playbook = 0
    /\ hook = "user_prompt_inject"
    /\ pc = "idle"
    /\ last = NoCall

\* main() on one prompt of session session_id: what it prints is kept in
\* last.log, {} as the empty sequence of members
UserPrompt ==
    /\ hook = "user_prompt_inject"
    /\ \E session_id \in Sessions :
          IF ~is_first_message(disk.last_session, session_id)
          THEN /\ last' = Call("user_prompt_inject", playbook, disk, session_id, FALSE, <<>>)
               /\ UNCHANGED <<disk, heap, playbook>>
          ELSE LET loaded == load_playbook(disk.playbook)
                   context == format_playbook(loaded)
               IN /\ heap' = <<loaded>>
                  /\ playbook' = 1
                  /\ IF context = <<>>
                     THEN /\ last' = Call("user_prompt_inject", playbook, disk, session_id,
                                          FALSE, <<>>)
                          /\ UNCHANGED disk
                     ELSE /\ last' = Call("user_prompt_inject", playbook, disk, session_id,
                                          FALSE,
                                          <<[key |-> "hookSpecificOutput",
                                             value |-> [hookEventName |-> "UserPromptSubmit",
                                                        additionalContext |-> context]]>>)
                          /\ disk' = [disk EXCEPT !.last_session =
                                         [exists |-> TRUE, text |-> session_id]]
    /\ pc' = "answered"
    /\ UNCHANGED hook

NextInject == UserPrompt

SpecInject == InitInject /\ [][NextInject]_vars
(***************************************************************************)
(* Properties of apply_structured_operations (checked under SpecOps)       *)
(***************************************************************************)
IsBatchCall == last.op = "apply_structured_operations"

\* the operations actually looped over
Processed == IF Len(last.input) > MAX_OPS THEN SubSeq(last.input, 1, MAX_OPS) ELSE last.input

\* C1: when an exception escapes the batch, the playbook returned is the one
\* passed in, with the contents it had before the call: nothing done by the
\* operations that completed before the failure is visible in it.
RollbackReturnsOriginal ==
    (IsBatchCall /\ last.raised) =>
        /\ playbook = last.arg
        /\ heap[playbook] = last.before

\* an operation was applied and changed the working copy, then a later one raised
RollbackAfterAppliedOp ==
    /\ IsBatchCall /\ last.raised
    /\ Len(last.log) >= 2
    /\ last.log[1].applied
    /\ last.log[1].after # last.before

\* C2: after a call with a non-empty batch the caller's playbook object has
\* the contents it had before the call, committed or rolled back.
CallerPlaybookUntouched ==
    (IsBatchCall /\ last.input # <<>>) => heap[last.arg] = last.before

\* a batch committed and its result differs from the caller's playbook
CommittedBatchChangedCopy ==
    /\ IsBatchCall /\ ~last.raised
    /\ playbook # last.arg
    /\ heap[playbook] # last.before

NamesIn(pb) == {e.name : e \in UNION {Range(pb.sections[s]) : s \in DOMAIN pb.sections}}

TextsIn(pb) == {e.text : e \in UNION {Range(pb.sections[s]) : s \in DOMAIN pb.sections}}

IsBlank(t) == t \in {"", " ", "  "}

FieldOr(op, k, default) == IF k \in DOMAIN op THEN op[k] ELSE default

OpType(i) == FieldOr(last.log[i].op, "type", "")

ResolvingCount(pb, op) ==
    LET ids == FieldOr(op, "source_ids", <<>>)
    IN Cardinality({i \in DOMAIN ids : ids[i] \in NamesIn(pb)})

\* the validation failures of an operation record against a working playbook
FailsValidation(pb, op) ==
    /\ "str" \notin DOMAIN op
    /\ LET type == FieldOr(op, "type", "")
       IN \/ type = "ADD" /\ (IsBlank(FieldOr(op, "text", "")) \/ op.text \in TextsIn(pb))
          \/ type = "MERGE" /\ (IsBlank(FieldOr(op, "merged_text", ""))
                                  \/ ResolvingCount(pb, op) < 2)
          \/ type \in {"UPDATE", "DELETE"}
               /\ FieldOr(op, "target_id", NoName) \notin NamesIn(pb)
          \/ type \notin {"ADD", "MERGE", "UPDATE", "DELETE"}

\* C3: an operation that fails validation leaves the working playbook as it
\* was, raises nothing, and the operation after it is still processed.
InvalidOpIsSkipped ==
    IsBatchCall =>
        \A i \in DOMAIN last.log :
            FailsValidation(last.log[i].before, last.log[i].op) =>
                /\ last.log[i].after = last.log[i].before
                /\ ~last.log[i].raised
                /\ ~last.log[i].applied
                /\ i < Len(Processed) => Len(last.log) > i

\* a MERGE with a single resolving source is skipped and the ADD after it applies
SkippedMergeThenAppliedAdd ==
    /\ IsBatchCall /\ ~last.raised
    /\ Len(last.log) = 2
    /\ OpType(1) = "MERGE"
    /\ ~IsBlank(last.log[1].op.merged_text)
    /\ ResolvingCount(last.log[1].before, last.log[1].op) = 1
    /\ OpType(2) = "ADD" /\ last.log[2].applied
    /\ heap[playbook] # last.before

\* does UPDATE / DELETE i find its target in the state left by the operations before it
TargetOp(i) ==
    /\ OpType(i) \in {"UPDATE", "DELETE"}
    /\ "target_id" \in DOMAIN last.log[i].op
    /\ ~IsBlank(FieldOr(last.log[i].op, "text", "u"))

\* C4: operations are applied in list order, each against the state left by
\* the ones before it: created entries are found by later operations,
\* removed entries are not.
SequentialProcessing ==
    IsBatchCall =>
        /\ \A i \in DOMAIN last.log :
              /\ last.log[i].op = last.input[i]
              /\ last.log[i].before = IF i = 1 THEN last.before ELSE last.log[i - 1].after
              /\ TargetOp(i) =>
                    (last.log[i].applied <=>
                        last.log[i].op.target_id \in NamesIn(last.log[i].before))
              /\ (OpType(i) = "MERGE" /\ last.log[i].applied) =>
                    ResolvingCount(last.log[i].before, last.log[i].op) >= 2
        /\ (~last.raised /\ last.input # <<>>) =>
              /\ Len(last.log) = Len(Processed)
              /\ heap[playbook] = last.log[Len(last.log)].after

\* an entry created by the first operation is the target of the second,
\* which is applied
LaterOpUsesCreatedEntry ==
    /\ IsBatchCall /\ Len(last.log) = 2
    /\ OpType(1) = "ADD" /\ last.log[1].applied
    /\ TargetOp(2) /\ last.log[2].applied
    /\ last.log[2].op.target_id \notin NamesIn(last.before)


RECURSIVE SumOver(_, _, _)
\* sum of a counter over the entries of pb named by the ids of a set
SumOver(pb, ids, field) ==
    IF ids = {} THEN 0
    ELSE LET id == CHOOSE x \in ids : TRUE
             e == CHOOSE x \in UNION {Range(pb.sections[s]) : s \in DOMAIN pb.sections} :
                     x.name = id
         IN e[field] + SumOver(pb, ids \ {id}, field)

SectionHolding(pb, name) ==
    CHOOSE s \in DOMAIN pb.sections : \E e \in Range(pb.sections[s]) : e.name = name

\* the source ids of operation i that resolve in the state it runs against
ValidSources(i) ==
    {id \in Range(FieldOr(last.log[i].op, "source_ids", <<>>)) :
        id \in NamesIn(last.log[i].before)}

FirstValidSource(i) ==
    LET ids == last.log[i].op.source_ids
        k == CHOOSE j \in DOMAIN ids :
                /\ ids[j] \in NamesIn(last.log[i].before)
                /\ \A m \in DOMAIN ids : ids[m] \in NamesIn(last.log[i].before) => j <= m
    IN ids[k]

\* where the entry created by MERGE i belongs
MergeTarget(i) ==
    LET raw == FieldOr(last.log[i].op, "section", "")
    IN IF ~IsBlank(raw) THEN _resolve_section(raw)
       ELSE SectionHolding(last.log[i].before, FirstValidSource(i))

\* the entries of section s after operation i that did not exist before it
CreatedIn(i, s) ==
    {e \in Range(last.log[i].after.sections[s]) : e.name \notin NamesIn(last.log[i].before)}

Created(i) == UNION {CreatedIn(i, s) : s \in DOMAIN last.log[i].after.sections}

EntryCount(pb) == SumSeq([k \in 1..Len(SectionOrder) |-> Len(pb.sections[SectionOrder[k]])])

MergeWithTwoValid(i) ==
    /\ OpType(i) = "MERGE"
    /\ ~IsBlank(FieldOr(last.log[i].op, "merged_text", ""))
    /\ Cardinality(ValidSources(i)) >= 2

\* C9: a MERGE with at least 2 valid source ids creates exactly one entry, in
\* the target section, with text merged_text and with helpful and harmful
\* the sums of the valid source entries' counters; no valid source remains.
MergeSumsAndRemovesSources ==
    IsBatchCall =>
        \A i \in DOMAIN last.log :
            MergeWithTwoValid(i) =>
                /\ last.log[i].applied
                /\ Cardinality(Created(i)) = 1
                /\ EntryCount(last.log[i].after)
                      = EntryCount(last.log[i].before) - Cardinality(ValidSources(i)) + 1
                /\ \A e \in Created(i) :
                      /\ e \in CreatedIn(i, MergeTarget(i))
                      /\ e.text = last.log[i].op.merged_text
                      /\ e.helpful = SumOver(last.log[i].before, ValidSources(i), "helpful")
                      /\ e.harmful = SumOver(last.log[i].before, ValidSources(i), "harmful")
                /\ NamesIn(last.log[i].after) \cap ValidSources(i) = {}

\* C10: the entry created by MERGE is in the explicitly given section
\* (resolved by the section registry) when one is supplied, otherwise in the
\* section holding, when the MERGE runs, the first listed source id that
\* still resolves.
MergePlacement ==
    IsBatchCall =>
        \A i \in DOMAIN last.log :
            (OpType(i) = "MERGE" /\ last.log[i].applied) =>
                /\ Created(i) # {}
                /\ Created(i) = CreatedIn(i, MergeTarget(i))
                /\ LET entries == last.log[i].after.sections[MergeTarget(i)]
                   IN entries[Len(entries)] \in Created(i)

\* the first listed source was deleted by the operation before the MERGE, so
\* the merged entry lands in the section of the next listed source
MergeAfterDeleteOfFirstSource ==
    /\ IsBatchCall /\ Len(last.log) = 2
    /\ OpType(1) = "DELETE" /\ last.log[1].applied
    /\ OpType(2) = "MERGE" /\ last.log[2].applied
    /\ IsBlank(FieldOr(last.log[2].op, "section", ""))
    /\ last.log[2].op.source_ids[1] = last.log[1].op.target_id
    /\ MergeTarget(2) # SectionHolding(last.before, last.log[2].op.source_ids[1])
    /\ Created(2) = CreatedIn(2, OTH)

\* C19: a successful UPDATE changes only the text of the target entry: its
\* name, counters and section membership, and every other entry, are as
\* before.
UpdateChangesOnlyText ==
    IsBatchCall =>
        \A i \in DOMAIN last.log :
            (OpType(i) = "UPDATE" /\ last.log[i].applied) =>
                /\ DOMAIN last.log[i].after.sections = DOMAIN last.log[i].before.sections
                /\ \A s \in DOMAIN last.log[i].before.sections :
                      /\ Len(last.log[i].after.sections[s]) = Len(last.log[i].before.sections[s])
                      /\ \A k \in DOMAIN last.log[i].before.sections[s] :
                            last.log[i].after.sections[s][k]
                               = IF last.log[i].before.sections[s][k].name
                                       = last.log[i].op.target_id
                                 THEN [last.log[i].before.sections[s][k]
                                          EXCEPT !.text = last.log[i].op.text]
                                 ELSE last.log[i].before.sections[s][k]
                /\ last.log[i].op.text \in TextsIn(last.log[i].after)

\* an UPDATE replaced the text of an entry whose counters are not zero
UpdatedEntryKeepsCounters ==
    /\ IsBatchCall /\ ~last.raised /\ Len(last.log) = 1
    /\ OpType(1) = "UPDATE" /\ last.log[1].applied
    /\ \E e \in Range(heap[playbook].sections[PAT]) :
          /\ e.name = last.log[1].op.target_id
          /\ e.text = "u" /\ e.helpful = 5 /\ e.harmful = 1
    /\ "u" \notin TextsIn(last.before)

\* the section an ADD names, by the spellings of the inputs
SectionNamed(raw) ==
    CASE raw = "patterns & approaches" -> PAT
      [] raw = "Mistakes To Avoid" -> MIS
      [] OTHER -> OTH

\* C20: ADD appends exactly one entry with helpful = 0 and harmful = 0 to the
\* resolved section (OTHERS when the section is missing or unrecognized),
\* unless its text is blank or equals the text of an entry present in any
\* section, in which case the playbook is unchanged.
AddAppendsOneEntry ==
    IsBatchCall =>
        \A i \in DOMAIN last.log :
            OpType(i) = "ADD" =>
                IF \/ IsBlank(FieldOr(last.log[i].op, "text", ""))
                   \/ last.log[i].op.text \in TextsIn(last.log[i].before)
                THEN last.log[i].after = last.log[i].before /\ ~last.log[i].applied
                ELSE /\ last.log[i].applied
                     /\ DOMAIN last.log[i].after.sections = DOMAIN last.log[i].before.sections
                     /\ \A s \in DOMAIN last.log[i].before.sections :
                           IF s = SectionNamed(FieldOr(last.log[i].op, "section", ""))
                           THEN /\ Len(last.log[i].after.sections[s])
                                      = Len(last.log[i].before.sections[s]) + 1
                                /\ SubSeq(last.log[i].after.sections[s], 1,
                                          Len(last.log[i].before.sections[s]))
                                      = last.log[i].before.sections[s]
                                /\ LET e == last.log[i].after.sections[s][
                                               Len(last.log[i].after.sections[s])]
                                   IN /\ e.text = last.log[i].op.text
                                      /\ e.helpful = 0 /\ e.harmful = 0
                                      /\ DOMAIN e = {"name", "text", "helpful", "harmful"}
                                      /\ e.name \notin NamesIn(last.log[i].before)
                           ELSE last.log[i].after.sections[s] = last.log[i].before.sections[s]

\* an ADD of a text already present is skipped and an ADD naming a section
\* lands there
DuplicateSkippedThenAdded ==
    /\ IsBatchCall /\ ~last.raised /\ Len(last.log) = 2
    /\ OpType(1) = "ADD" /\ ~last.log[1].applied
    /\ FieldOr(last.log[1].op, "text", "") \in TextsIn(last.before)
    /\ OpType(2) = "ADD" /\ last.log[2].applied
    /\ Len(heap[playbook].sections[PAT]) = Len(last.before.sections[PAT]) + 1
    /\ heap[playbook].sections[PAT][Len(heap[playbook].sections[PAT])].text = "n"

\* the sequence without its k-th element
RemoveAt(entries, k) ==
    [j \in 1..(Len(entries) - 1) |-> IF j < k THEN entries[j] ELSE entries[j + 1]]

\* C21: DELETE with a target_id that names an existing entry removes that
\* entry from its section and changes no other entry; DELETE with a
\* target_id that names no entry leaves the playbook unchanged.
DeleteRemovesOnlyTarget ==
    IsBatchCall =>
        \A i \in DOMAIN last.log :
            OpType(i) = "DELETE" =>
                IF FieldOr(last.log[i].op, "target_id", NoName)
                      \in NamesIn(last.log[i].before)
                THEN \E s \in DOMAIN last.log[i].before.sections :
                        \E k \in DOMAIN last.log[i].before.sections[s] :
                           /\ last.log[i].before.sections[s][k].name
                                 = last.log[i].op.target_id
                           /\ last.log[i].after
                                 = [last.log[i].before EXCEPT
                                      !.sections[s] = RemoveAt(@, k)]
                ELSE last.log[i].after = last.log[i].before

(***************************************************************************)
(* Properties of the playbook store (checked under SpecStore and Spec)     *)
(***************************************************************************)
IsSaveCall == hook = "store" /\ last.op = "save_playbook"

NoVersion == "none"

SectionsAndVersion(pb) ==
    [sections |-> pb.sections, version |-> FieldOr(pb, "version", NoVersion)]

\* C22: for any persisted state x, saving load(x) and loading again yields
\* sections and version identical to those the first load returned.
RoundTripStable ==
    [][(IsSaveCall /\ pc = "saved" /\ pc' = "reloaded") =>
          SectionsAndVersion(heap'[playbook']) = SectionsAndVersion(last.before)]_vars

\* a legacy record with a score was loaded, saved and loaded again, and the
\* second load returned the migrated entry in OTHERS
LegacyRoundTrip ==
    /\ hook = "store" /\ pc = "reloaded"
    /\ Len(heap) = 3
    /\ Len(heap[3].sections[OTH]) = 2
    /\ heap[3].sections[OTH][1] = Entry(Nm("kpt_", <<0, 0, 1>>), "c", 0, 3)
    /\ heap[3].sections[OTH][2] = Entry(K2, "d", 2, 0)
    /\ "key_points" \notin DOMAIN disk.data

\* C25: save fails with a precondition violation when the playbook has no
\* sections key and then leaves the persisted record as it was; otherwise it
\* overwrites the record with the full playbook, without a key_points key.
SaveContract ==
    IsSaveCall =>
        IF "sections" \notin DOMAIN last.before
        THEN last.raised /\ disk = last.input.disk
        ELSE /\ ~last.raised
             /\ disk.state = "json"
             /\ DOMAIN disk.data
                   = ((DOMAIN last.before) \ {"key_points"}) \cup {"last_updated"}
             /\ \A k \in (DOMAIN disk.data) \ {"last_updated"} :
                   disk.data[k] = last.before[k]

\* a playbook without sections was refused while a record was on disk
SaveRefused ==
    /\ IsSaveCall /\ pc = "failed" /\ last.raised
    /\ "key_points" \in DOMAIN last.before
    /\ disk.state = "json" /\ "sections" \in DOMAIN disk.data

IsLoadCall == last.op = "load_playbook"

\* the record has neither a sections key nor a key_points key
Keyless(d) ==
    d.state = "json" /\ "sections" \notin DOMAIN d.data /\ "key_points" \notin DOMAIN d.data

\* C23: load never raises; when the persisted record is missing, is not
\* parseable JSON, or has neither a sections key nor a key_points key, it
\* returns a fresh playbook with all five canonical sections present and
\* empty.
LoadNeverRaises ==
    IsLoadCall =>
        /\ ~last.raised
        /\ (last.input.state \in {"missing", "unparseable"} \/ Keyless(last.input)) =>
              /\ DOMAIN heap[playbook].sections = Canonical
              /\ \A s \in Canonical : heap[playbook].sections[s] = <<>>

\* a file that is not JSON was loaded as the empty playbook
UnparseableLoadedEmpty ==
    /\ IsLoadCall /\ last.input.state = "unparseable"
    /\ heap[playbook] = _default_playbook

\* the record is in the legacy format
IsLegacy(d) ==
    d.state = "json" /\ "sections" \notin DOMAIN d.data /\ "key_points" \in DOMAIN d.data

\* the text of a legacy element
LegacyText(item) == IF "str" \in DOMAIN item THEN item.str ELSE item.text

NoCounters(item) == "helpful" \notin DOMAIN item /\ "harmful" \notin DOMAIN item

\* C24: loading a legacy record places every element in OTHERS in its
\* original order and leaves the other four sections empty; every existing
\* name is kept verbatim; a string or an object without counters and without
\* score gets helpful = 0 and harmful = 0; an object with score s and no
\* counters gets helpful = max(s, 0) and harmful = max(-s, 0).
LegacyMigration ==
    (IsLoadCall /\ IsLegacy(last.input)) =>
        /\ DOMAIN heap[playbook].sections = Canonical
        /\ \A s \in Canonical \ {OTH} : heap[playbook].sections[s] = <<>>
        /\ Len(heap[playbook].sections[OTH]) = Len(last.input.data.key_points)
        /\ \A k \in DOMAIN last.input.data.key_points :
              /\ heap[playbook].sections[OTH][k].text
                    = LegacyText(last.input.data.key_points[k])
              /\ "name" \in DOMAIN last.input.data.key_points[k] =>
                    heap[playbook].sections[OTH][k].name
                       = last.input.data.key_points[k].name
              /\ ("str" \in DOMAIN last.input.data.key_points[k]
                    \/ (NoCounters(last.input.data.key_points[k])
                          /\ "score" \notin DOMAIN last.input.data.key_points[k])) =>
                    /\ heap[playbook].sections[OTH][k].helpful = 0
                    /\ heap[playbook].sections[OTH][k].harmful = 0
              /\ ("score" \in DOMAIN last.input.data.key_points[k]
                    /\ NoCounters(last.input.data.key_points[k])) =>
                    /\ heap[playbook].sections[OTH][k].helpful
                          = IF last.input.data.key_points[k].score > 0
                            THEN last.input.data.key_points[k].score ELSE 0
                    /\ heap[playbook].sections[OTH][k].harmful
                          = IF last.input.data.key_points[k].score < 0
                            THEN 0 - last.input.data.key_points[k].score ELSE 0

\* a string and a named object with a positive score were migrated in order
StringThenScoredMigrated ==
    /\ IsLoadCall /\ IsLegacy(last.input)
    /\ last.input.data.key_points = <<[str |-> "a"], [name |-> K2, text |-> "d", score |-> 2]>>
    /\ heap[playbook].sections[OTH]
          = <<Entry(Nm("kpt_", <<0, 0, 1>>), "a", 0, 0), Entry(K2, "d", 2, 0)>>

\* the same single ADD, MERGE, UPDATE or DELETE operation twice in
\* succession leaves the playbook the first application left
RepeatedOperationIdempotent ==
    IsBatchCall =>
        \A i \in DOMAIN last.log :
            (i + 1 \in DOMAIN last.log
               /\ OpType(i) \in {"ADD", "MERGE", "UPDATE", "DELETE"}
               /\ last.log[i + 1].op = last.log[i].op) =>
                  last.log[i + 1].after = last.log[i].after

(***************************************************************************)
(* Order of the entries of a section (checked under SpecPasses)            *)
(***************************************************************************)
SeqNames(entries) == [i \in DOMAIN entries |-> entries[i].name]

RECURSIVE IsSubseq(_, _)
\* a is b with some elements left out
IsSubseq(a, b) ==
    IF a = <<>> THEN TRUE
    ELSE IF b = <<>> THEN FALSE
    ELSE IF Head(a) = Head(b) THEN IsSubseq(Tail(a), Tail(b))
    ELSE IsSubseq(a, Tail(b))

\* every section of a holds entries of the same section of b, in b's order
KeepsOrder(b, a) ==
    \A s \in DOMAIN a.sections :
        IF s \in DOMAIN b.sections
        THEN IsSubseq(SeqNames(a.sections[s]), SeqNames(b.sections[s]))
        ELSE a.sections[s] = <<>>

\* every section of a holds entries of the same section of b, in b's order,
\* followed by entries whose names b's section does not hold
AppendsOnly(b, a) ==
    \A s \in DOMAIN a.sections :
        \E k \in 0..Len(a.sections[s]) :
            /\ IsSubseq(SubSeq(SeqNames(a.sections[s]), 1, k),
                        IF s \in DOMAIN b.sections THEN SeqNames(b.sections[s]) ELSE <<>>)
            /\ \A j \in (k + 1)..Len(a.sections[s]) :
                  s \in DOMAIN b.sections =>
                     a.sections[s][j].name \notin Range(SeqNames(b.sections[s]))

\* the texts load_playbook is given, per section, in the record's order
RecordTexts(d, s) ==
    IF d.state # "json" THEN <<>>
    ELSE IF "sections" \in DOMAIN d.data
    THEN IF "list" \in DOMAIN d.data.sections \/ s \notin DOMAIN d.data.sections THEN <<>>
         ELSE [i \in DOMAIN d.data.sections[s] |-> d.data.sections[s][i].text]
    ELSE IF "key_points" \in DOMAIN d.data /\ s = OTH
    THEN [i \in DOMAIN d.data.key_points |-> LegacyText(d.data.key_points[i])]
    ELSE <<>>

\* C29: within each section entries stay in insertion order: ADD and MERGE
\* place the new entry after all existing entries of the section, and UPDATE,
\* DELETE, pruning, deduplication, load and save never change the relative
\* order of the entries that remain.
InsertionOrderKept ==
    /\ IsLoadCall =>
          \A s \in DOMAIN heap[playbook].sections :
             [i \in DOMAIN heap[playbook].sections[s] |-> heap[playbook].sections[s][i].text]
                = RecordTexts(last.input, s)
    /\ IsBatchCall =>
          \A i \in DOMAIN last.log :
             IF OpType(i) \in {"ADD", "MERGE"}
             THEN AppendsOnly(last.log[i].before, last.log[i].after)
             ELSE KeepsOrder(last.log[i].before, last.log[i].after)
    /\ last.op \in {"run_deduplication", "prune_harmful"} =>
          KeepsOrder(last.before, heap[playbook])
    /\ last.op = "save_playbook" =>
          \A s \in DOMAIN last.before.sections :
             disk.data.sections[s] = last.before.sections[s]

\* pat-001 was merged away, the merged entry stands behind pat-002, and the
\* deduplication that followed removed an entry and kept that order
MergedEntryLastThroughDedup ==
    /\ last.op = "run_deduplication" /\ ~last.raised
    /\ EntryCount(heap[playbook]) < EntryCount(last.before)
    /\ Len(last.before.sections[PAT]) = 3
    /\ SeqNames(last.before.sections[PAT]) = <<P2, Nm("pat-", <<0, 0, 3>>), Nm("pat-", <<0, 0, 4>>)>>
    /\ Len(heap[playbook].sections[PAT]) = 2

(***************************************************************************)
(* Overlapping invocations (checked under SpecOverlap)                     *)
(***************************************************************************)
\* the positions in the history of the events op
EventsOf(op) == {i \in DOMAIN last.log : last.log[i].op = op}

\* both invocations loaded before either began to save, and both have saved
OverlappedAndSaved ==
    /\ hook = "overlap"
    /\ \A p \in Invocations : pc[p] = "saved"
    /\ \A i \in EventsOf("load_playbook") : \A j \in EventsOf("open") : i < j

\* C30: when two invocations overlap on the same persisted file (both load
\* before either saves), the file after both saves equals exactly the
\* playbook computed by the invocation that saved last: never a mixture of
\* the two results, never a partially written record.
LastWriterWins ==
    OverlappedAndSaved =>
        /\ disk.units = Serialize(heap[playbook[last.arg]])
        /\ FileRecord(disk) = [state |-> "json", data |-> heap[playbook[last.arg]]]

(***************************************************************************)
(* Properties of run_deduplication (checked under SpecDedup)               *)
(***************************************************************************)
IsDedupCall == last.op = "run_deduplication"

\* the flattened entries handed to the call, and those it returned
Before == FlatCanonical(last.before)

After == FlatCanonical(heap[playbook])

\* the pair (i, j) of flattened entries is an edge: similarity >= threshold
Near(i, j) ==
    Cosine(Abs(last.input.embed[Before[i].kp.text] - last.input.embed[Before[j].kp.text]))
       >= (IF last.input.threshold < 0 THEN 0
           ELSE IF last.input.threshold > 100 THEN 100 ELSE last.input.threshold)

RECURSIVE Grow(_)
\* closure of a set of indices under the edges
Grow(S) ==
    LET T == S \cup {j \in DOMAIN Before : \E k \in S : Near(k, j)}
    IN IF T = S THEN S ELSE Grow(T)

\* the connected component of index i
Group(i) == Grow({i})

Leader(i) == CHOOSE x \in Group(i) : \A y \in Group(i) : x <= y

RECURSIVE SumField(_, _)
SumField(S, field) ==
    IF S = {} THEN 0
    ELSE LET x == CHOOSE y \in S : TRUE
         IN Before[x].kp[field] + SumField(S \ {x}, field)

\* the returned entries that carry the name of entry i
Kept(i) == {k \in DOMAIN After : After[k].kp.name = Before[i].kp.name}

\* the call went through the merge: provider present, at least two entries
DedupCompleted == IsDedupCall /\ ~last.raised /\ last.input.mode = "ok" /\ Len(Before) >= 2

\* C11: when deduplication fails (provider unavailable, or an exception at
\* any step) the playbook returned has every entry and counter as before
\* the call.
DedupFailureLeavesPlaybook ==
    (IsDedupCall /\ last.raised) => heap[playbook] = last.before

\* C28: every engine operation is idempotent on repeated input; for the
\* deduplication pass: run twice in succession with unchanged similarities,
\* it yields the same playbook as run once.
RepeatedDedupIdempotent ==
    (IsDedupCall /\ pc = "repeated") => heap[playbook] = last.before

\* C12: in every group with more than one member the member with the
\* smallest flattened index survives with its name, text and section, its
\* counters are the sums over the group, and the other members are gone.
SmallestIndexSurvives ==
    DedupCompleted =>
        \A i \in DOMAIN Before :
            (Leader(i) = i /\ Cardinality(Group(i)) > 1) =>
                /\ Cardinality(Kept(i)) = 1
                /\ \A k \in Kept(i) :
                      /\ After[k].sec = Before[i].sec
                      /\ After[k].kp.text = Before[i].kp.text
                      /\ After[k].kp.helpful = SumField(Group(i), "helpful")
                      /\ After[k].kp.harmful = SumField(Group(i), "harmful")
                      /\ DOMAIN After[k].kp = DOMAIN Before[i].kp
                /\ \A j \in Group(i) \ {i} : Kept(j) = {}

\* a group spanning both sections was merged while another entry stayed
CrossSectionGroupMerged ==
    /\ DedupCompleted
    /\ \E i, j, k \in DOMAIN Before :
          /\ Leader(i) = i /\ j \in Group(i) /\ Before[j].sec # Before[i].sec
          /\ k \notin Group(i)
          /\ Kept(k) # {}
    /\ Len(After) < Len(Before)

\* C13: the groups are the connected components of the similarity graph:
\* the entries returned are the first entries of the components, and each
\* has absorbed the counters of exactly the entries a chain of edges links
\* to it.
GroupsAreComponents ==
    DedupCompleted =>
        /\ {After[k].kp.name : k \in DOMAIN After}
              = {Before[Leader(i)].kp.name : i \in DOMAIN Before}
        /\ Len(After) = Cardinality({Leader(i) : i \in DOMAIN Before})
        /\ \A i \in DOMAIN Before :
              Leader(i) = i =>
                 \A k \in Kept(i) :
                    After[k].kp.helpful = SumField(Group(i), "helpful")

\* two entries whose own similarity is below the threshold ended in one
\* group through a third
ChainMerged ==
    /\ DedupCompleted
    /\ \E i, j \in DOMAIN Before :
          /\ i # j /\ j \in Group(i) /\ ~Near(i, j)
          /\ Leader(i) = i
          /\ Kept(j) = {}
          /\ \A k \in Kept(i) : After[k].kp.helpful > Before[i].kp.helpful


\* similarity of two returned entries under the call's provider and threshold
StillNear(k1, k2) ==
    Similarity(last.input.embed, After[k1].kp.text, After[k2].kp.text)
        >= Clamp(last.input.threshold)

IsPruneCall == last.op = "prune_harmful"

\* harmful >= 3 and harmful > helpful, on an entry that has the counters
Doomed(e) ==
    /\ "harmful" \in DOMAIN e /\ "helpful" \in DOMAIN e
    /\ e.harmful >= 3
    /\ e.harmful > e.helpful

\* how many of the entries are not doomed
Spared(entries) == Cardinality({i \in DOMAIN entries : ~Doomed(entries[i])})

\* C14: pruning removes an entry if and only if harmful >= 3 and
\* harmful > helpful; every other entry is retained, unchanged and in place.
PruneExactly ==
    IsPruneCall =>
        /\ DOMAIN heap[playbook].sections = DOMAIN last.before.sections
        /\ \A s \in DOMAIN last.before.sections :
              /\ Len(heap[playbook].sections[s]) = Spared(last.before.sections[s])
              /\ \A i \in DOMAIN last.before.sections[s] :
                    Doomed(last.before.sections[s][i])
                       <=> last.before.sections[s][i] \notin Range(heap[playbook].sections[s])
              /\ \A i, j \in DOMAIN heap[playbook].sections[s] :
                    (i < j) => heap[playbook].sections[s][i].name = P1

\* an entry with harmful = helpful >= 3 and an untouched entry stay while a
\* third is removed
PruneSparesTies ==
    /\ IsPruneCall
    /\ \E e \in Range(heap[playbook].sections[PAT]) :
          "harmful" \in DOMAIN e /\ e.harmful = e.helpful /\ e.harmful >= 3
    /\ \E e \in Range(heap[playbook].sections[PAT]) :
          "harmful" \in DOMAIN e /\ e.harmful = 0 /\ e.helpful = 0
    /\ Len(last.before.sections[OTH]) = 1
    /\ heap[playbook].sections[OTH] = <<>>


(***************************************************************************)
(* Invariants of the playbook across the hooks (checked under Spec)        *)
(***************************************************************************)
Loaded == playbook # 0

Current == heap[playbook]

EntriesOf(sections) == UNION {Range(sections[s]) : s \in DOMAIN sections}

\* C5: after every public operation the sections map has exactly the five
\* canonical names as keys.
SectionsExactlyCanonical ==
    /\ Loaded => DOMAIN Current.sections = Canonical
    /\ pc = "saved" => DOMAIN disk.data.sections = Canonical

\* C6: after every public operation no two entries of the playbook have the
\* same name.
NamesUnique ==
    Loaded =>
        LET flat == FlatItems(Current)
        IN \A i, j \in DOMAIN flat : i # j => flat[i].kp.name # flat[j].kp.name

NoScoreField ==
    /\ Loaded => \A e \in EntriesOf(Current.sections) : "score" \notin DOMAIN e
    /\ pc = "saved" => \A e \in EntriesOf(disk.data.sections) : "score" \notin DOMAIN e

(***************************************************************************)
(* Properties of the evaluation counters (checked under Spec)              *)
(***************************************************************************)
IsUpdateCall == last.op = "update_playbook_data"

\* the texts the operations of a precompact call carry
OpTexts ==
    UNION { {FieldOr(last.input.operations[i], "text", ""),
             FieldOr(last.input.operations[i], "merged_text", "")} :
            i \in DOMAIN last.input.operations }

\* the playbook the operations of a precompact call left
AfterOperations ==
    IF last.raised \/ last.log = <<>> THEN last.before
    ELSE last.log[Len(last.log)].after

EntriesNamed(pb, n) == {e \in EntriesOf(pb.sections) : e.name = n}

\* how many evaluations of the call give entry n the rating r
EvalCount(n, r) ==
    Cardinality({i \in DOMAIN last.input.evaluations :
                    /\ FieldOr(last.input.evaluations[i], "name", NoName) = n
                    /\ FieldOr(last.input.evaluations[i], "rating", "") = r})

\* C26: whenever the extraction result contains the operations key, even
\* with an empty list, no entry is created from new_key_points; the
\* evaluations of the same extraction result are still applied.
OperationsKeySuppressesLegacy ==
    (IsUpdateCall /\ "operations" \in DOMAIN last.input) =>
        /\ \A e \in EntriesOf(heap[playbook].sections) :
              e.text \in TextsIn(last.before) \cup OpTexts
        /\ \A r \in {"helpful", "harmful"} :
              \A n \in NamesIn(AfterOperations) :
                 Cardinality(EntriesNamed(AfterOperations, n)) = 1 =>
                    \A e \in EntriesNamed(heap[playbook], n) :
                       \A e0 \in EntriesNamed(AfterOperations, n) :
                          e[r] = e0[r] + EvalCount(n, r)

\* an empty operations list beside a new key point "x" and a rating: the
\* rating was counted and "x" was not inserted
EmptyOperationsStillRated ==
    /\ IsUpdateCall
    /\ "operations" \in DOMAIN last.input /\ last.input.operations = <<>>
    /\ last.input.new_key_points = <<[str |-> "x"]>>
    /\ last.input.evaluations = <<[name |-> K1, rating |-> "helpful"]>>
    /\ "x" \notin TextsIn(heap[playbook])
    /\ \E e \in EntriesNamed(heap[playbook], K1) :
          \E e0 \in EntriesNamed(last.before, K1) : e.helpful = e0.helpful + 1

\* the playbook with one counter of the entry at position k of section s
\* raised by 1
Rated(pb, s, k, field) ==
    [pb EXCEPT !.sections[s][k][field] = @ + 1]

\* the playbook after the pruning that ends update_playbook_data
WithoutDoomed(pb) ==
    [pb EXCEPT !.sections =
        [s \in DOMAIN @ |-> SelectSeq(@[s], LAMBDA e : ~Doomed(e))]]

\* a precompact call that carries one evaluation and nothing else
OnlyOneEvaluation ==
    /\ "operations" \notin DOMAIN last.input
    /\ last.input.new_key_points = <<>>
    /\ Len(last.input.evaluations) = 1

\* C27: applying an evaluation increments by exactly 1 the helpful counter
\* (rating helpful) or the harmful counter (rating harmful) of the entry with
\* the given name and changes nothing else; an evaluation with any other
\* rating, or with a name that matches no entry, changes nothing.
EvaluationIncrementsOne ==
    /\ (last.op = "apply_bullet_tags" /\ Len(last.input) = 1) =>
          IF /\ last.input[1].tag \in {"helpful", "harmful"}
             /\ last.input[1].name \in NamesIn(last.before)
          THEN \E s \in DOMAIN last.before.sections :
                  \E k \in DOMAIN last.before.sections[s] :
                     /\ last.before.sections[s][k].name = last.input[1].name
                     /\ heap[playbook] = Rated(last.before, s, k, last.input[1].tag)
          ELSE heap[playbook] = last.before
    /\ (IsUpdateCall /\ OnlyOneEvaluation) =>
          IF /\ last.input.evaluations[1].rating \in {"helpful", "harmful"}
             /\ last.input.evaluations[1].name \in NamesIn(last.before)
          THEN \E s \in DOMAIN last.before.sections :
                  \E k \in DOMAIN last.before.sections[s] :
                     /\ last.before.sections[s][k].name = last.input.evaluations[1].name
                     /\ heap[playbook]
                           = WithoutDoomed(Rated(last.before, s, k,
                                                 last.input.evaluations[1].rating))
          ELSE heap[playbook] = WithoutDoomed(last.before)

\* a harmful tag on pat-001 raised its harmful counter from 1 to 2
HarmfulTagCounted ==
    /\ last.op = "apply_bullet_tags"
    /\ last.input = <<[name |-> P1, tag |-> "harmful"]>>
    /\ Len(last.before.sections[PAT]) >= 1
    /\ last.before.sections[PAT][1] = Entry(P1, "A", 5, 1)
    /\ heap[playbook].sections[PAT][1] = Entry(P1, "A", 5, 2)

(***************************************************************************)
(* Order of the stages of one invocation (checked under Spec)              *)
(***************************************************************************)
\* first and last stage of the documented flow that a call covers:
\* 1 load/migrate, 2 curator operations or legacy new-key-point path,
\* 3 evaluation counters, 4 pruning, 5 deduplication, 6 save
FirstStageOf(op) ==
    CASE op = "load_playbook" -> 1
      [] op = "apply_structured_operations" -> 2
      [] op = "update_playbook_data" -> 2
      [] op = "apply_bullet_tags" -> 3
      [] op = "prune_harmful" -> 4
      [] op = "run_deduplication" -> 5
      [] op = "save_playbook" -> 6
      [] OTHER -> 0

LastStageOf(op) == IF op = "update_playbook_data" THEN 4 ELSE FirstStageOf(op)

\* C15: in every invocation the stages run in the order load/migrate,
\* curator operations (or the legacy path), evaluation counters, pruning,
\* deduplication, save.
StagesInDocumentedOrder ==
    [][FirstStageOf(last'.op) > LastStageOf(last.op)]_vars

\* the call that follows a call in each hook
FollowsInHook(h, op) ==
    CASE h = "session_end" /\ op = "none" -> "load_playbook"
      [] h = "session_end" /\ op = "load_playbook" -> "apply_bullet_tags"
      [] h = "session_end" /\ op = "apply_bullet_tags" -> "apply_structured_operations"
      [] h = "session_end" /\ op = "apply_structured_operations" -> "run_deduplication"
      [] h = "session_end" /\ op = "run_deduplication" -> "prune_harmful"
      [] h = "session_end" /\ op = "prune_harmful" -> "save_playbook"
      [] h = "precompact" /\ op = "none" -> "load_playbook"
      [] h = "precompact" /\ op = "load_playbook" -> "update_playbook_data"
      [] h = "precompact" /\ op = "update_playbook_data" -> "save_playbook"
      [] OTHER -> "nothing"

\* the names a precompact call rated and did not hold before the call
RatedNewcomers(rating) ==
    {last.input.evaluations[i].name : i \in
        {k \in DOMAIN last.input.evaluations :
            /\ last.input.evaluations[k].rating = rating
            /\ last.input.evaluations[k].name \notin NamesIn(last.before)}}

\* inside update_playbook_data: the evaluations see the entries the first
\* stage created, and pruning sees the counters the evaluations left
UpdateStagesInOrder ==
    last.op = "update_playbook_data" =>
        /\ \A e \in EntriesOf(heap[playbook].sections) :
              /\ e.name \in RatedNewcomers("harmful") => e.harmful >= 1
              /\ e.name \in RatedNewcomers("helpful") => e.helpful >= 1
              /\ ~Doomed(e)

\* C15 as the hooks run it: session_end runs load, evaluation counters
\* (bullet tags), curator operations, deduplication, pruning, save;
\* precompact runs load, curator operations or the legacy path, evaluation
\* counters, pruning, save.
StagesInHookOrder ==
    [][/\ last'.op = FollowsInHook(hook, last.op)
       /\ UpdateStagesInOrder']_vars

\* a session_end invocation went through all its stages, the bullet tags
\* having found an entry to rate
SessionEndCompleted ==
    /\ hook = "session_end"
    /\ pc = "saved"
    /\ last.op = "save_playbook"
    /\ disk.state = "json"
    /\ heap[playbook].sections[OTH] # <<>>

(***************************************************************************)
(* Long batches and identifier allocation (checked under SpecLong)         *)
(***************************************************************************)
TenOrFewer == IF Len(last.input) < 10 THEN Len(last.input) ELSE 10

\* every operation of the batch is an ADD of a text the playbook does not
\* hold, the texts being pairwise distinct
AllDistinctAdds ==
    /\ \A i \in DOMAIN last.input :
          /\ FieldOr(last.input[i], "type", "") = "ADD"
          /\ ~IsBlank(FieldOr(last.input[i], "text", ""))
          /\ last.input[i].text \notin TextsIn(last.before)
    /\ \A i, j \in DOMAIN last.input : i # j => last.input[i].text # last.input[j].text

\* the entries of OTHERS the call created, in their order
NewInOthers ==
    SelectSeq(heap[playbook].sections[OTH], LAMBDA e : e.name \notin NamesIn(last.before))

\* C16: only the first 10 operations of a batch are processed; operations
\* from position 11 on have no effect, whatever their type, and n valid ADD
\* operations with distinct texts create exactly min(n, 10) entries, those
\* of the first 10 in list order.
OnlyFirstTenProcessed ==
    IsBatchCall =>
        /\ Len(last.log) <= 10
        /\ \A i \in DOMAIN last.log : last.log[i].op = last.input[i]
        /\ (\A i \in 1..TenOrFewer : "str" \notin DOMAIN last.input[i]) =>
              (~last.raised /\ Len(last.log) = TenOrFewer)
        /\ (~last.raised /\ last.input # <<>>) =>
              heap[playbook] = last.log[Len(last.log)].after
        /\ AllDistinctAdds =>
              /\ Len(NewInOthers) = TenOrFewer
              /\ \A i \in 1..TenOrFewer :
                    /\ NewInOthers[i].text = last.input[i].text
                    /\ NewInOthers[i].helpful = 0 /\ NewInOthers[i].harmful = 0
              /\ EntryCount(heap[playbook]) = EntryCount(last.before) + TenOrFewer

\* a batch of 12 whose 11th element is not even a dict: ten entries are
\* created and nothing is raised
EleventhIgnored ==
    /\ IsBatchCall /\ ~last.raised
    /\ Len(last.input) = 12
    /\ "str" \in DOMAIN last.input[11]
    /\ Len(NewInOthers) = 10
    /\ NewInOthers[10].text = last.input[10].text

\* C17: identifier numbers are allocated monotonically per section and
\* slug: over a sequence of operations each newly allocated name has a
\* number greater than every number allocated before it for that slug in
\* that section.
MonotonicAllocation ==
    IsBatchCall =>
        \A i, j \in DOMAIN last.log :
            i < j =>
               \A s \in DOMAIN last.log[i].after.sections \cap DOMAIN last.log[j].after.sections :
                  \A a \in CreatedIn(i, s) : \A b \in CreatedIn(j, s) :
                     a.name.pre = b.name.pre =>
                        ParseInt(b.name.digits) > ParseInt(a.name.digits)

(***************************************************************************)
(* Properties of generate_keypoint_name (checked under SpecNames)          *)
(***************************************************************************)
IsNameCall == last.op = "generate_keypoint_name"

RECURSIVE ValueOf(_)
\* the number a digit string denotes
ValueOf(ds) == IF ds = <<>> THEN 0 ELSE ds[Len(ds)] + 10 * ValueOf(SubSeq(ds, 1, Len(ds) - 1))

\* the numbers of the names {slug}-NNN, NNN exactly three digits
ThreeDigitNumbers(entries, slug) ==
    {ValueOf(entries[i].name.digits) : i \in
        {k \in DOMAIN entries :
            /\ "name" \in DOMAIN entries[k]
            /\ entries[k].name.pre = SlugDash(slug)
            /\ Len(entries[k].name.digits) = 3}}

LargestOf(S) == IF S = {} THEN 0 ELSE CHOOSE x \in S : \A y \in S : y <= x

\* C18: the name returned is {slug}-(max+1) padded to at least 3 digits, max
\* being the largest number among the names of the section that match
\* exactly {slug}-{3 digits} (0 when none does); other names have no
\* influence.
NextAfterThreeDigitNames ==
    IsNameCall =>
        /\ last.log[1].pre = SlugDash(last.input)
        /\ ValueOf(last.log[1].digits)
              = LargestOf(ThreeDigitNumbers(last.before.sections[PAT], last.input)) + 1
        /\ Len(last.log[1].digits) >= 3
        /\ Len(last.log[1].digits) > 3 => last.log[1].digits[1] # 0


(***************************************************************************)
(* Properties of update_playbook_data as a whole (checked under Spec)      *)
(***************************************************************************)
NonEmptyOperations ==
    /\ IsUpdateCall
    /\ Has(last.input, "operations")
    /\ last.input.operations # <<>>

\* C31: update_playbook_data does not mutate the playbook passed to it when
\* the extraction result carries a non-empty operations list: after the call,
\* committed or rolled back, the sections of the object passed in equal the
\* snapshot taken before the call.
InputPlaybookIsolated ==
    NonEmptyOperations => heap[last.arg].sections = last.before.sections

\* the names the operations of the call created
CreatedNames == NamesIn(AfterOperations) \ NamesIn(last.before)

\* the texts the legacy path of the call inserted
CreatedTexts ==
    IF "operations" \in DOMAIN last.input THEN {}
    ELSE {FieldOr(last.input.new_key_points[i], "str",
                  FieldOr(last.input.new_key_points[i], "text", "")) :
             i \in DOMAIN last.input.new_key_points} \ (TextsIn(last.before) \cup {""})

\* how many evaluations of the call carry the rating harmful
HarmfulRatings ==
    Cardinality({i \in DOMAIN last.input.evaluations :
                    FieldOr(last.input.evaluations[i], "rating", "") = "harmful"})

\* the entry e with the evaluations of the call counted
Evaluated(e) ==
    [e EXCEPT !.helpful = @ + EvalCount(e.name, "helpful"),
              !.harmful = @ + EvalCount(e.name, "harmful")]

\* the entry named n after the operations, when there is exactly one
SingleNamed(n) == CHOOSE e \in EntriesNamed(AfterOperations, n) : TRUE

HasSingle(n) ==
    /\ Cardinality(EntriesNamed(AfterOperations, n)) = 1
    /\ {"helpful", "harmful"} \subseteq DOMAIN SingleNamed(n)

\* pruning follows the evaluations: an entry the evaluations of the call
\* brought under the pruning rule is gone from the result
RatedIntoPruning ==
    \A n \in NamesIn(AfterOperations) :
        (HasSingle(n) /\ Doomed(Evaluated(SingleNamed(n)))) =>
            EntriesNamed(heap[playbook], n) = {}

\* C33 as stated: operations, then evaluations, then pruning: an entry that
\* an evaluation of the call brings under the pruning rule is removed by the
\* same call, and an entry created in the call is never removed by it.
CreatedNeverPruned ==
    IsUpdateCall =>
        /\ RatedIntoPruning
        /\ \A n \in CreatedNames : EntriesNamed(heap[playbook], n) # {}
        /\ CreatedTexts \subseteq TextsIn(heap[playbook])

\* C33: operations, then evaluations, then pruning: an entry that an
\* evaluation of the call brings under the pruning rule is removed by the
\* same call, and an entry created in the call is removed by it only when
\* its counters, with the sums a MERGE gave it and the evaluations of the
\* call, satisfy the pruning rule.
CreatedPrunedOnlyByRule ==
    IsUpdateCall =>
        /\ RatedIntoPruning
        /\ \A n \in CreatedNames :
              (HasSingle(n) /\ ~Doomed(Evaluated(SingleNamed(n)))) =>
                  EntriesNamed(heap[playbook], n) # {}
        /\ HarmfulRatings < PRUNE_MIN_HARMFUL =>
              CreatedTexts \subseteq TextsIn(heap[playbook])

\* one call added an entry that stayed and rated oth-001 from 2/2 to 2/3,
\* which removed it
AddedStaysRatedGoes ==
    /\ IsUpdateCall /\ ~last.raised
    /\ CreatedNames # {}
    /\ \A n \in CreatedNames : EntriesNamed(heap[playbook], n) # {}
    /\ \E e \in EntriesNamed(AfterOperations, O1) : e.helpful = 2 /\ e.harmful = 2
    /\ EvalCount(O1, "harmful") = 1
    /\ EntriesNamed(heap[playbook], O1) = {}


(***************************************************************************)
(* update_playbook_data on a batch with an element that is not a dict     *)
(* (checked under SpecLong)                                                *)
(***************************************************************************)
\* the positions of the batch that hold something other than a dict
NonDictAt == {i \in DOMAIN last.input.operations : Has(last.input.operations[i], "str")}

\* name and text of the entries of a section, in order
Listed(entries) == [k \in DOMAIN entries |-> <<entries[k].name, entries[k].text>>]

\* C34 as stated: a batch that contains an element that is not an operation
\* record does not make update_playbook_data raise, and the result holds
\* exactly the entries the playbook had before the batch.
NonDictBatchKeepsEntries ==
    (NonEmptyOperations /\ NonDictAt # {}) =>
        \A s \in DOMAIN last.before.sections :
            Listed(heap[playbook].sections[s]) = Listed(last.before.sections[s])

\* C34: a batch that contains, among the first ten elements, an element
\* that is not an operation record does not make update_playbook_data raise:
\* the whole batch is discarded, so the pruning that ends the call runs on
\* exactly the entries the playbook had before the batch, also when valid
\* operations precede the malformed element in the list.
NonDictBatchDiscarded ==
    (NonEmptyOperations /\ NonDictAt \cap (1..MAX_OPS) # {}
        /\ last.input.evaluations = <<>>) =>
        /\ last.raised
        /\ playbook = last.arg
        /\ heap[playbook] = WithoutDoomed(last.before)

\* two ADDs were applied on the copy before the third element, not a dict,
\* raised: the result has none of the two
AddsBeforeNonDictDiscarded ==
    /\ NonEmptyOperations /\ last.raised
    /\ NonDictAt = {3}
    /\ Len(last.log) = 3
    /\ last.log[1].applied /\ last.log[2].applied
    /\ "t01" \in TextsIn(last.log[2].after)
    /\ "t01" \notin TextsIn(heap[playbook])
    /\ EntryCount(last.before) >= 1


(***************************************************************************)
(* Properties of the LLM callers (checked under SpecLLM)                   *)
(***************************************************************************)
InLLMCall == last.op \in LLMCallers

AttemptAt(i) == last.log[i].ev = "attempt"

AttemptsMade == Cardinality({i \in DOMAIN last.log : AttemptAt(i)})

SleepsMade == Cardinality({i \in DOMAIN last.log : last.log[i].ev = "sleep"})

\* the attempt at position i of the log failed with the error o
FailedWith(i) == AttemptAt(i) /\ Has(last.log[i].outcome, "error")

\* the errors worth another attempt: timeout, connection failure, 429, 5xx
Transient(o) ==
    \/ o.error \in {"APITimeoutError", "APIConnectionError", "RateLimitError",
                    "InternalServerError"}
    \/ o.error = "APIStatusError" /\ o.status_code \in {500, 502, 503, 504}

\* C35: a failing LLM collaborator never propagates into the pipeline:
\* whatever it does (error, empty response, a response that is not the
\* expected JSON object) the three callers return a well-formed result,
\* empty on failure, without raising, and the dependent stage then adds and
\* rates nothing.
LLMFailureContained ==
    hook \in LLMCallers =>
        /\ pc # "raised"
        /\ (InLLMCall /\ pc = "returned") =>
              LET result == last.log[Len(last.log)].value
              IN /\ DOMAIN EmptyResult(hook) \subseteq DOMAIN result
                 /\ (\A i \in DOMAIN last.log :
                        AttemptAt(i) =>
                           \/ FailedWith(i)
                           \/ last.log[i].outcome.shape \in {"empty", "prose"}
                           \/ Has(last.log[i].outcome.body, "list")
                           \/ Has(last.log[i].outcome.body, "str"))
                       => result = EmptyResult(hook)
        /\ (pc = "applied" /\ last.op = "update_playbook_data"
               /\ last.input = EmptyResult("extract_keypoints")) =>
              heap[playbook] = WithoutDoomed(last.before)
        /\ (pc = "applied" /\ last.op # "update_playbook_data" /\ last.input = <<>>) =>
              heap[playbook] = last.before

\* C36: extract_keypoints makes at most MAX_RETRIES attempts per call and
\* stops at the first successful one; when every attempt fails with a
\* retryable error it sleeps exactly MAX_RETRIES - 1 times, once between
\* consecutive attempts and never after the final attempt.
RetryLoopBounded ==
    last.op = "extract_keypoints" =>
        /\ AttemptsMade <= MAX_RETRIES
        /\ \A i \in DOMAIN last.log :
              (AttemptAt(i) /\ ~FailedWith(i)) =>
                 \A j \in DOMAIN last.log :
                    j > i => last.log[j].ev \notin {"attempt", "sleep"}
        /\ \A i \in DOMAIN last.log :
              last.log[i].ev = "sleep" =>
                 /\ i > 1 /\ FailedWith(i - 1)
                 /\ i < Len(last.log) => AttemptAt(i + 1)
                 /\ Cardinality({k \in 1..i : AttemptAt(k)}) < MAX_RETRIES
        /\ (/\ pc = "returned" /\ AttemptsMade = MAX_RETRIES
            /\ \A i \in DOMAIN last.log :
                  AttemptAt(i) => (FailedWith(i) /\ Transient(last.log[i].outcome)))
              => SleepsMade = MAX_RETRIES - 1

\* three attempts that timed out, a sleep after the first and the second,
\* then the empty result
ThreeTimeoutsTwoSleeps ==
    /\ last.op = "extract_keypoints" /\ pc = "returned"
    /\ Len(last.log) = 6
    /\ \A i \in {1, 3, 5} :
          AttemptAt(i) /\ last.log[i].outcome = [error |-> "APITimeoutError"]
    /\ last.log[2].ev = "sleep" /\ last.log[4].ev = "sleep"
    /\ last.log[6] = [ev |-> "return", value |-> EmptyResult("extract_keypoints")]

\* C37: when an attempt fails with a non-retryable error, extract_keypoints
\* returns the empty extraction result immediately, with no sleep and no
\* further attempt, also when earlier attempts of the same call failed with
\* retryable errors.
NonRetryableReturnsAtOnce ==
    last.op = "extract_keypoints" =>
        \A i \in DOMAIN last.log :
            (FailedWith(i) /\ ~Transient(last.log[i].outcome)) =>
                /\ Len(last.log) = i + 1
                /\ last.log[i + 1]
                      = [ev |-> "return", value |-> EmptyResult("extract_keypoints")]

\* a timeout, a sleep, then a 400: the call returned the empty result with
\* two attempts and one sleep
TimeoutThenClientError ==
    /\ last.op = "extract_keypoints" /\ pc = "returned"
    /\ Len(last.log) = 4
    /\ FailedWith(1) /\ Transient(last.log[1].outcome)
    /\ last.log[2].ev = "sleep"
    /\ FailedWith(3)
    /\ last.log[3].outcome = [error |-> "APIStatusError", status_code |-> 400]
    /\ last.log[4].ev = "return"


(***************************************************************************)
(* Properties of the user-prompt hook (checked under SpecInject)           *)
(***************************************************************************)
IsPromptCall == last.op = "user_prompt_inject"

\* the prompt was the first of its session: no session recorded, or another
WasFirstPrompt ==
    \/ ~last.before.last_session.exists
    \/ last.before.last_session.text # last.input

\* the stored playbook held at least one entry when the prompt came
StoredEntries == EntryCount(load_playbook(last.before.playbook))

\* C38: on the first prompt of a new session, when the stored playbook
\* contains at least one entry, the user-prompt hook emits the formatted
\* playbook as additional context and records the session as seen; on every
\* later prompt of the same session it emits an empty object.
InjectedOncePerSession ==
    IsPromptCall =>
        /\ (WasFirstPrompt /\ StoredEntries >= 1) =>
              /\ Len(last.log) = 1
              /\ last.log[1].key = "hookSpecificOutput"
              /\ last.log[1].value.additionalContext # <<>>
              /\ disk.last_session = [exists |-> TRUE, text |-> last.input]
        /\ ~WasFirstPrompt => last.log = <<>>


(***************************************************************************)
(* Playbook-wide properties of the operations (checked under SpecOps)      *)
(***************************************************************************)
\* the sum of one counter over every entry of the playbook
CounterTotal(pb, field) ==
    SumSeq([k \in DOMAIN FlatItems(pb) |-> FieldOr(FlatItems(pb)[k].kp, field, 0)])

\* C39: MERGE conserves the playbook-wide counter totals: for every
\* source_ids list, the sum of helpful over all entries and the sum of
\* harmful over all entries are the same after a MERGE, applied or skipped,
\* as before it.
MergeConservesTotals ==
    IsBatchCall =>
        \A i \in DOMAIN last.log :
            OpType(i) = "MERGE" =>
                /\ CounterTotal(last.log[i].after, "helpful")
                      = CounterTotal(last.log[i].before, "helpful")
                /\ CounterTotal(last.log[i].after, "harmful")
                      = CounterTotal(last.log[i].before, "harmful")


\* no two entries of the playbook have the same text
TextsDistinct(pb) == Cardinality(TextsIn(pb)) = Len(FlatItems(pb))

\* the text operation i writes, "" when it writes none
WrittenText(i) ==
    CASE OpType(i) = "UPDATE" -> FieldOr(last.log[i].op, "text", "")
      [] OpType(i) = "MERGE" -> FieldOr(last.log[i].op, "merged_text", "")
      [] OTHER -> ""

\* C40 as stated: entry texts stay pairwise distinct: if no two entries have
\* the same text before a batch, no two have the same text after any
\* sequence of ADD, MERGE, UPDATE and DELETE operations applied to it.
TextsStayDistinct ==
    IsBatchCall =>
        \A i \in DOMAIN last.log :
            TextsDistinct(last.before) => TextsDistinct(last.log[i].after)

\* C40: entry texts stay pairwise distinct: if no two entries have the same
\* text before a batch, no two have the same text after any sequence of
\* ADD, MERGE, UPDATE and DELETE operations in which no UPDATE or MERGE
\* carries a text that an entry already holds when it runs.
TextsStayDistinctUnlessRewritten ==
    IsBatchCall =>
        \A i \in DOMAIN last.log :
            (/\ TextsDistinct(last.log[i].before)
             /\ WrittenText(i) \notin TextsIn(last.log[i].before)) =>
                TextsDistinct(last.log[i].after)

\* an ADD of the text pat-001 holds is skipped, then an UPDATE gives pat-001
\* a new text: the texts are still pairwise distinct
DuplicateAddSkippedThenUpdate ==
    /\ IsBatchCall /\ ~last.raised
    /\ Len(last.log) = 2
    /\ OpType(1) = "ADD" /\ FieldOr(last.log[1].op, "text", "") = "A"
    /\ ~last.log[1].applied
    /\ "A" \in TextsIn(last.before)
    /\ OpType(2) = "UPDATE" /\ last.log[2].applied
    /\ "u" \in TextsIn(heap[playbook])
    /\ TextsDistinct(last.before) /\ TextsDistinct(heap[playbook])

====
